---- MODULE Spec2Model ----
(***************************************************************************)
(* Model of the event-driven scan orchestration of dairycow/peaches:       *)
(*   - GapScanner.start_scan (app/scanner/scanner.py): scan lifecycle with  *)
(*     an asyncio.Lock and the status.running flag;                         *)
(*   - EventBus (app/events/bus.py): bounded queue, one dispatch loop task, *)
(*     concurrent fan-out to the handlers of the event's exact type;        *)
(*   - the handlers the bot registers (app/bot.py, app/events/handlers).    *)
(* Each coroutine is cut at its suspension points (await on a lock, on a    *)
(* queue, on a task); what runs between two suspension points is one step.  *)
(***************************************************************************)
EXTENDS Integers, Sequences, FiniteSets, TLC

(***************************************************************************)
(* Bounds                                                                  *)
(***************************************************************************)
MaxCallers == 3
MaxCandidates == 1
MaxClock == 1
MaxQueue == 1
MaxEvents == 3
MaxSubs == 2
MaxStarts == 1
MaxPutters == 1
MaxLoops == 2
MaxSchedCalls == 3

Callers == 1..MaxCallers

VARIABLES
    status,         \* GapScanner._status: running, last_scan_time, last_scan_results
    scan_lock,      \* GapScanner._scan_lock: 0 when unlocked, else the holding call
    lock_waiters,   \* FIFO of the calls suspended in _scan_lock.acquire()
    spc,            \* position of each start_scan call
    response,       \* ScanResponse returned by each start_scan call
    now,            \* datetime.now(), as a counter
    contended,      \* calls issued while another call was executing its scan
    executed        \* calls that have entered _execute_scan

scanVars == <<status, scan_lock, lock_waiters, spc, response, now, contended, executed>>

VARIABLES
    queue,          \* EventBus._queue: ids of the queued events, oldest first
    subscribers,    \* EventBus._subscribers: event type -> list of handlers
    bus_running,    \* EventBus._running
    worker_task,    \* EventBus._worker_task: 0 for None, else the loop task
    workers,        \* the dispatch loop tasks ever created: position and event
    calls,          \* per event being dispatched, the handler tasks gather() created
    published,      \* every event put on the queue, in the order of the puts
    putters,        \* events of the producers suspended in put(), oldest first
    stopping,       \* loop tasks a stop() call is awaiting
    inv_log,        \* handler invocations <<event, handler>> in the order they began
    completed,      \* events whose gather() returned to the dispatch loop
    stop_log,       \* per stopped loop task: calls in flight and events queued at stop(), stop() returned
    finished,       \* handler invocations <<event, handler>> that returned or raised
    first_failed    \* the first event one of whose handlers raised, 0 before that

busVars == <<queue, subscribers, bus_running, worker_task, workers, calls, published,
             putters, stopping, inv_log, completed, stop_log, finished,
             first_failed>>

VARIABLE
    maxsize         \* EventBus._queue.maxsize, fixed when the bus is constructed

VARIABLES
    sched_running,  \* SchedulerService._running
    cron_started,   \* whether the AsyncIOScheduler is started
    cron_calls,     \* the start() and shutdown() calls made on the AsyncIOScheduler
    sched_calls,    \* number of SchedulerService.start() and stop() calls so far
    job_log         \* the jobs that have fired, in order

schedVars == <<sched_running, cron_started, cron_calls, sched_calls, job_log>>

VARIABLES
    db,                     \* the bar database: symbol -> whether the load fails, daily bars
    ann_args,               \* arguments of the scan_candidates call
    ann_result,             \* what scan_candidates returned, NotCalled before the call
    announcement_tracker,   \* ANNOUNCEMENT_TRACKER: symbol -> announcement time, 0 for no entry
    scan_request,           \* the ScanRequest of the _execute_scan call
    exec_result,            \* what _execute_scan returned or that it raised
    date_result,            \* what the last get_candidates_for_date call returned
    date_log,               \* per get_candidates_for_date call: its date, the status it ran under
    or_cache,               \* OpeningRangeTracker._or_cache: symbol -> opening range or NoRange
    or_call,                \* the last sample_opening_range call: arguments, bars, result
    or_got,                 \* what the last get_opening_range call returned
    reg_log,                \* the register_announcement calls made, oldest first
    check_result,           \* the last check_announcement_today call: arguments, time, result
    svc_pc,                 \* position of the ScannerService.scan() run
    svc_data,               \* result.data of the scanner, once execute() returned it
    svc_todo,               \* the announcements the loop of scan() has still to visit
    svc_count,              \* processed_count, the local counter of scan()
    svc_log,                \* the events the run has published, in order, with their fields
    gap_args,               \* arguments of the detect_gaps_from_bars call
    gap_result,             \* what detect_gaps_from_bars returned or that it raised
    filter_args,            \* arguments of the first filter_by_price call
    filter_log              \* what the filter_by_price calls returned, oldest first

annVars == <<ann_args, ann_result, announcement_tracker>>
execVars == <<scan_request, exec_result>>
dateVars == <<date_result, date_log>>
orVars == <<or_cache, or_call, or_got>>
trackVars == <<reg_log, check_result>>
svcVars == <<svc_pc, svc_data, svc_todo, svc_count, svc_log>>
fnVars == <<gap_args, gap_result, filter_args, filter_log>>

dataVars == <<db, annVars, execVars, dateVars, orVars, trackVars, svcVars, fnVars>>

vars == <<scanVars, busVars, maxsize, schedVars, dataVars>>

(***************************************************************************)
(* GapScanner                                                              *)
(***************************************************************************)
NoResponse == [success |-> FALSE, scan_id |-> "", candidates_count |-> 0, message |-> "none"]

AlreadyInProgress ==
    [success |-> FALSE, scan_id |-> "", candidates_count |-> 0,
     message |-> "Scan already in progress"]

ScanCompletedResponse(n) ==
    [success |-> TRUE, scan_id |-> "scan", candidates_count |-> n,
     message |-> "Scan completed"]

ScanFailedResponse ==
    [success |-> FALSE, scan_id |-> "scan", candidates_count |-> 0,
     message |-> "Scan failed"]

ScanInit ==
    /\ status = [running |-> FALSE, last_scan_time |-> 0, last_scan_results |-> 0]
    /\ scan_lock = 0
    /\ lock_waiters = <<>>
    /\ spc = [c \in Callers |-> "idle"]
    /\ response = [c \in Callers |-> NoResponse]
    /\ now = 1
    /\ contended = {}
    /\ executed = {}

\* asyncio.Lock.acquire takes the lock without suspending only when it is
\* unlocked and nobody is queued for it.
LockAvailable == scan_lock = 0 /\ lock_waiters = <<>>

\* The body of start_scan from the acquisition of the lock to its first
\* suspension point (await self._execute_scan) or to the early return.
EnterScan(c) ==
    IF status.running
    THEN /\ response' = [response EXCEPT ![c] = AlreadyInProgress]
         /\ spc' = [spc EXCEPT ![c] = "returned"]
         /\ scan_lock' = 0
         /\ UNCHANGED <<status, executed>>
    ELSE /\ status' = [status EXCEPT !.running = TRUE, !.last_scan_time = now]
         /\ spc' = [spc EXCEPT ![c] = "scanning"]
         /\ scan_lock' = c
         /\ executed' = executed \cup {c}
         /\ UNCHANGED response

\* A start_scan without the lock and without the running check.
StartScanCallUnguarded(c) ==
    /\ spc[c] = "idle"
    /\ contended' = IF \E d \in Callers : spc[d] = "scanning"
                    THEN contended \cup {c} ELSE contended
    /\ status' = [status EXCEPT !.running = TRUE, !.last_scan_time = now]
    /\ spc' = [spc EXCEPT ![c] = "scanning"]
    /\ executed' = executed \cup {c}
    /\ UNCHANGED <<scan_lock, lock_waiters, response, now>>

\* start_scan is called: async with self._scan_lock, then the body.
StartScanCall(c) ==
    /\ spc[c] = "idle"
    /\ contended' = IF \E d \in Callers : spc[d] = "scanning"
                    THEN contended \cup {c} ELSE contended
    /\ IF LockAvailable
       THEN /\ EnterScan(c)
            /\ UNCHANGED lock_waiters
       ELSE /\ lock_waiters' = Append(lock_waiters, c)
            /\ spc' = [spc EXCEPT ![c] = "waiting"]
            /\ UNCHANGED <<status, scan_lock, response, executed>>
    /\ UNCHANGED now

\* The first queued call is woken by release() and takes the lock.
LockAcquired(c) ==
    /\ spc[c] = "waiting"
    /\ scan_lock = 0
    /\ lock_waiters # <<>>
    /\ Head(lock_waiters) = c
    /\ lock_waiters' = Tail(lock_waiters)
    /\ EnterScan(c)
    /\ UNCHANGED <<now, contended>>

\* _execute_scan returned n candidates: record them, finally running = False,
\* leave the async with block.
ScanSucceeds(c, n) ==
    /\ spc[c] = "scanning"
    /\ status' = [status EXCEPT !.last_scan_results = n, !.running = FALSE]
    /\ response' = [response EXCEPT ![c] = ScanCompletedResponse(n)]
    /\ spc' = [spc EXCEPT ![c] = "returned"]
    /\ scan_lock' = 0
    /\ UNCHANGED <<lock_waiters, now, contended, executed>>

\* An exception of _execute_scan that leaves start_scan instead of being
\* turned into a response.
ScanFailsPropagates(c) ==
    /\ spc[c] = "scanning"
    /\ status' = [status EXCEPT !.running = FALSE]
    /\ spc' = [spc EXCEPT ![c] = "raised"]
    /\ scan_lock' = 0
    /\ UNCHANGED <<lock_waiters, response, now, contended, executed>>

\* A failure path that also resets the result count.
ScanFailsClearsResults(c) ==
    /\ spc[c] = "scanning"
    /\ status' = [status EXCEPT !.running = FALSE, !.last_scan_results = 0]
    /\ response' = [response EXCEPT ![c] = ScanFailedResponse]
    /\ spc' = [spc EXCEPT ![c] = "returned"]
    /\ scan_lock' = 0
    /\ UNCHANGED <<lock_waiters, now, contended, executed>>

\* _execute_scan raised: except Exception, finally running = False.
ScanFails(c) ==
    /\ spc[c] = "scanning"
    /\ status' = [status EXCEPT !.running = FALSE]
    /\ response' = [response EXCEPT ![c] = ScanFailedResponse]
    /\ spc' = [spc EXCEPT ![c] = "returned"]
    /\ scan_lock' = 0
    /\ UNCHANGED <<lock_waiters, now, contended, executed>>

\* Time passes.
Tick ==
    /\ now <= MaxClock
    /\ now' = now + 1
    /\ UNCHANGED <<status, scan_lock, lock_waiters, spc, response, contended, executed>>

(***************************************************************************)
(* EventBus                                                                *)
(***************************************************************************)
WorkerIds == 1..MaxLoops

\* Handlers of the bus tests: arbitrary coroutines that return or raise.
TestHandlers == <<"h1", "h2", "h3">>

\* The callbacks TradingBot.start registers.
ImportHandlers == {"ImportHandler.on_download_started", "ImportHandler.on_import_started"}

EventTypes ==
    {"Event", "AppEvent", "ScanStartedEvent", "AnnouncementFoundEvent",
     "ScanCompletedEvent", "DownloadStartedEvent", "DownloadCompletedEvent",
     "ImportStartedEvent", "ImportCompletedEvent"}

\* The class each event class is derived from.
BaseClass(t) ==
    IF t = "Event" THEN "object"
    ELSE IF t = "AppEvent" THEN "Event"
    ELSE "AppEvent"

\* isinstance(event, T) for an event of class t.
IsInstance(t, T) ==
    \/ T = t
    \/ T = BaseClass(t)
    \/ (BaseClass(t) \in EventTypes /\ T = BaseClass(BaseClass(t)))

\* Event types the producers of the bus specification publish, and the types
\* its handlers subscribe to: one published type, which leaves the other
\* without a subscriber, and the base class, which is never published.
BusPublishTypes == {"ScanStartedEvent", "AnnouncementFoundEvent"}
BusSubscribeTypes == {"ScanStartedEvent", "AppEvent"}

\* An event: its class, the AppEvent fields, the status and result fields of a
\* completion event, and the event whose handler published it (0: a producer).
MkEvent(t, src, corr, st, payload, cause) ==
    [type |-> t, source |-> src, correlation_id |-> corr, status |-> st,
     payload |-> payload, cause |-> cause]

NoEvent == MkEvent("none", "", "", "", "", 0)

NoWorker == [st |-> "none", ev |-> 0]

NoStop == [inflight |-> {}, queued |-> <<>>, returned |-> FALSE]

BusInit ==
    /\ maxsize = MaxQueue
    /\ queue = <<>>
    /\ subscribers = [t \in EventTypes |-> <<>>]
    /\ bus_running = FALSE
    /\ worker_task = 0
    /\ workers = [w \in WorkerIds |-> NoWorker]
    /\ calls = <<>>
    /\ published = <<>>
    /\ putters = <<>>
    /\ stopping = {}
    /\ inv_log = <<>>
    /\ completed = {}
    /\ stop_log = [w \in WorkerIds |-> NoStop]
    /\ finished = {}
    /\ first_failed = 0

RECURSIVE SumLen(_)
SumLen(S) ==
    IF S = {} THEN 0
    ELSE LET t == CHOOSE x \in S : TRUE
         IN  Len(subscribers[t]) + SumLen(S \ {t})

Range(q) == {q[i] : i \in 1..Len(q)}

\* Events handed to publish() by producers (not by handlers), put or still waiting.
Produced ==
    Cardinality({i \in 1..Len(published) : published[i].cause = 0})
    + Len(putters)

\* asyncio.Queue.full()
QueueFull == Len(queue) >= maxsize

\* asyncio.Queue.get(): the oldest item and what stays queued.
QueueGetLifo(q) == [item |-> q[Len(q)], rest |-> SubSeq(q, 1, Len(q) - 1)]

QueueGet(q) == [item |-> Head(q), rest |-> Tail(q)]

\* A new handler task created by gather() for handler h.
NewCall(h) == [h |-> h, st |-> "pending", res |-> "", out |-> NoEvent]

Finished(c) == c.st \in {"returned", "raised", "cancelled"}

\* subscribe(event_type, handler): append under the bus lock. Handlers are
\* registered before the first event is published, as TradingBot.start and
\* the bus tests do.
Subscribe(t, h) ==
    /\ SumLen(EventTypes) < MaxSubs
    /\ published = <<>> /\ putters = <<>>
    /\ subscribers' = [subscribers EXCEPT ![t] = Append(@, h)]
    /\ UNCHANGED <<queue, bus_running, worker_task, workers, calls, published,
                   putters, stopping, inv_log, completed, stop_log, finished, first_failed>>

\* publish(event) of a caller that waits while a handler is running.
PublishCallSynchronous(ev) ==
    /\ Produced < MaxEvents
    /\ IF QueueFull \/ \E e \in 1..Len(calls) : \E k \in 1..Len(calls[e]) :
                           calls[e][k].st = "running"
       THEN /\ Len(putters) < MaxPutters
            /\ putters' = Append(putters, ev)
            /\ UNCHANGED <<queue, published, calls>>
       ELSE /\ published' = Append(published, ev)
            /\ queue' = Append(queue, Len(published) + 1)
            /\ calls' = Append(calls, <<>>)
            /\ UNCHANGED putters
    /\ UNCHANGED <<subscribers, bus_running, worker_task, workers, stopping,
                   inv_log, completed, stop_log, finished, first_failed>>

\* publish(event): await self._queue.put(event). put() enqueues at once when
\* the queue is not full and suspends the caller otherwise.
PublishCall(ev) ==
    /\ Produced < MaxEvents
    /\ IF QueueFull
       THEN /\ Len(putters) < MaxPutters
            /\ putters' = Append(putters, ev)
            /\ UNCHANGED <<queue, published, calls>>
       ELSE /\ published' = Append(published, ev)
            /\ queue' = Append(queue, Len(published) + 1)
            /\ calls' = Append(calls, <<>>)
            /\ UNCHANGED putters
    /\ UNCHANGED <<subscribers, bus_running, worker_task, workers, stopping,
                   inv_log, completed, stop_log, finished, first_failed>>

\* The longest-suspended producer resumes once the queue has room.
PublishResume ==
    /\ putters # <<>>
    /\ ~QueueFull
    /\ published' = Append(published, Head(putters))
    /\ queue' = Append(queue, Len(published) + 1)
    /\ calls' = Append(calls, <<>>)
    /\ putters' = Tail(putters)
    /\ UNCHANGED <<subscribers, bus_running, worker_task, workers, stopping,
                   inv_log, completed, stop_log, finished, first_failed>>

Created == Cardinality({w \in WorkerIds : workers[w].st # "none"})

\* start(): no-op when running, else set the flag and create the dispatch
\* loop task, of which at most n are created.
StartUpTo(n) ==
    IF bus_running
    THEN UNCHANGED vars
    ELSE /\ Created < n
         /\ bus_running' = TRUE
         /\ worker_task' = Created + 1
         /\ workers' = [workers EXCEPT ![Created + 1] = [st |-> "getting", ev |-> 0]]
         /\ UNCHANGED <<queue, subscribers, calls, published, putters, stopping,
                        inv_log, completed, stop_log, finished, first_failed>>

Start == StartUpTo(MaxStarts)

\* start() on a bus that may be started again after a stop().
Restart == StartUpTo(MaxLoops)

\* Cancelling the loop task while it awaits gather() cancels the handler
\* tasks gather() is waiting for.
CancelCalls(cs) ==
    [k \in 1..Len(cs) |->
        IF Finished(cs[k]) THEN cs[k] ELSE [cs[k] EXCEPT !.st = "cancelled", !.out = NoEvent]]

InFlight(e) ==
    IF e = 0 THEN {}
    ELSE {<<e, calls[e][k].h>> :
             k \in {i \in 1..Len(calls[e]) : calls[e][i].st \in {"running", "publishing"}}}

\* A stop() that empties the queue.
StopCallDiscardsQueue ==
    IF ~bus_running
    THEN UNCHANGED vars
    ELSE LET w == worker_task
             e == workers[w].ev
         IN  /\ bus_running' = FALSE
             /\ workers' = [workers EXCEPT ![w].st = "cancelling"]
             /\ calls' = IF e = 0 THEN calls
                         ELSE [calls EXCEPT ![e] = CancelCalls(@)]
             /\ stopping' = stopping \cup {w}
             /\ stop_log' = [stop_log EXCEPT ![w] = [inflight |-> InFlight(e),
                                                     queued |-> queue,
                                                     returned |-> FALSE]]
             /\ queue' = <<>>
             /\ UNCHANGED <<subscribers, worker_task, published, putters,
                            inv_log, completed, finished, first_failed>>

\* stop(): no-op when not running, else clear the flag, cancel the loop task
\* and await it.
StopCall ==
    IF ~bus_running
    THEN UNCHANGED vars
    ELSE LET w == worker_task
             e == workers[w].ev
         IN  /\ bus_running' = FALSE
             /\ workers' = [workers EXCEPT ![w].st = "cancelling"]
             /\ calls' = IF e = 0 THEN calls
                         ELSE [calls EXCEPT ![e] = CancelCalls(@)]
             /\ stopping' = stopping \cup {w}
             /\ stop_log' = [stop_log EXCEPT ![w] = [inflight |-> InFlight(e),
                                                     queued |-> queue,
                                                     returned |-> FALSE]]
             /\ UNCHANGED <<queue, subscribers, worker_task, published, putters,
                            inv_log, completed, finished, first_failed>>

\* The cancelled loop task receives CancelledError, once the handler tasks it
\* was gathering have ended, and breaks out of the loop.
WorkerCancelled(w) ==
    /\ workers[w].st = "cancelling"
    /\ workers' = [workers EXCEPT ![w].st = "done"]
    /\ calls' = IF workers[w].ev = 0 THEN calls
                ELSE [calls EXCEPT ![workers[w].ev] = <<>>]
    /\ UNCHANGED <<queue, subscribers, bus_running, worker_task, published,
                   putters, stopping, inv_log, completed, stop_log, finished, first_failed>>

\* stop() resumes after the awaited loop task has ended.
StopReturn(w) ==
    /\ w \in stopping
    /\ workers[w].st = "done"
    /\ stopping' = stopping \ {w}
    /\ stop_log' = [stop_log EXCEPT ![w].returned = TRUE]
    /\ UNCHANGED <<queue, subscribers, bus_running, worker_task, workers, calls,
                   published, putters, inv_log, completed, finished, first_failed>>

\* A dispatch loop that starts the handlers of an event without awaiting them.
WorkerGetNoAwait(w) ==
    /\ workers[w].st = "getting"
    /\ queue # <<>>
    /\ LET e  == Head(queue)
           hs == subscribers[published[e].type]
       IN  /\ queue' = Tail(queue)
           /\ calls' = [calls EXCEPT ![e] = [k \in 1..Len(hs) |-> NewCall(hs[k])]]
    /\ UNCHANGED <<subscribers, bus_running, worker_task, workers, published, putters,
                   stopping, inv_log, completed, stop_log, finished, first_failed>>

\* A dispatch that also hands the event to the handlers of its base classes.
WorkerGetIsInstance(w) ==
    /\ workers[w].st = "getting"
    /\ queue # <<>>
    /\ LET g  == QueueGet(queue)
           e  == g.item
           hs == subscribers[published[e].type] \o subscribers["AppEvent"] \o subscribers["Event"]
       IN  /\ queue' = g.rest
           /\ IF hs = <<>>
              THEN /\ completed' = completed \cup {e}
                   /\ UNCHANGED <<workers, calls>>
              ELSE /\ calls' = [calls EXCEPT ![e] = [k \in 1..Len(hs) |-> NewCall(hs[k])]]
                   /\ workers' = [workers EXCEPT ![w] = [st |-> "dispatching", ev |-> e]]
                   /\ UNCHANGED completed
    /\ UNCHANGED <<subscribers, bus_running, worker_task, published, putters,
                   stopping, inv_log, stop_log, finished, first_failed>>

\* A dispatch loop that an event without subscribers brings to an end.
WorkerGetNoSubscriberFails(w) ==
    /\ workers[w].st = "getting"
    /\ queue # <<>>
    /\ LET g  == QueueGet(queue)
           e  == g.item
           hs == subscribers[published[e].type]
       IN  /\ queue' = g.rest
           /\ IF hs = <<>>
              THEN /\ workers' = [workers EXCEPT ![w] = [st |-> "done", ev |-> 0]]
                   /\ UNCHANGED <<completed, calls>>
              ELSE /\ calls' = [calls EXCEPT ![e] = [k \in 1..Len(hs) |-> NewCall(hs[k])]]
                   /\ workers' = [workers EXCEPT ![w] = [st |-> "dispatching", ev |-> e]]
                   /\ UNCHANGED completed
    /\ UNCHANGED <<subscribers, bus_running, worker_task, published, putters,
                   stopping, inv_log, stop_log, finished, first_failed>>

\* One iteration of _process_events up to its next suspension: take one event
\* from the queue, look up the handlers of its exact type, and either return
\* (no subscriber) or gather() one task per handler.
WorkerGet(w) ==
    /\ workers[w].st = "getting"
    /\ queue # <<>>
    /\ LET g  == QueueGet(queue)
           e  == g.item
           hs == subscribers[published[e].type]
       IN  /\ queue' = g.rest
           /\ IF hs = <<>>
              THEN /\ completed' = completed \cup {e}
                   /\ UNCHANGED <<workers, calls>>
              ELSE /\ calls' = [calls EXCEPT ![e] = [k \in 1..Len(hs) |-> NewCall(hs[k])]]
                   /\ workers' = [workers EXCEPT ![w] = [st |-> "dispatching", ev |-> e]]
                   /\ UNCHANGED completed
    /\ UNCHANGED <<subscribers, bus_running, worker_task, published, putters,
                   stopping, inv_log, stop_log, finished, first_failed>>

\* A fan-out that awaits each handler before it starts the next one.
HandlerStartSequential(e, k) ==
    /\ calls[e][k].st = "pending"
    /\ \A j \in 1..(k - 1) : Finished(calls[e][j])
    /\ calls' = [calls EXCEPT ![e][k].st = "running"]
    /\ inv_log' = Append(inv_log, <<e, calls[e][k].h>>)
    /\ UNCHANGED <<queue, subscribers, bus_running, worker_task, workers, published,
                   putters, stopping, completed, stop_log, finished, first_failed>>

\* A handler task starts: _call_handler awaits handler(event). The tasks of
\* one gather() take their first step in the order gather() created them.
HandlerStart(e, k) ==
    /\ calls[e][k].st = "pending"
    /\ \A j \in 1..(k - 1) : calls[e][j].st # "pending"
    /\ calls' = [calls EXCEPT ![e][k].st = "running"]
    /\ inv_log' = Append(inv_log, <<e, calls[e][k].h>>)
    /\ UNCHANGED <<queue, subscribers, bus_running, worker_task, workers, published,
                   putters, stopping, completed, stop_log, finished, first_failed>>

\* The handler returns.
HandlerReturn(e, k) ==
    /\ calls[e][k].st = "running"
    /\ calls[e][k].h \notin ImportHandlers
    /\ calls' = [calls EXCEPT ![e][k].st = "returned"]
    /\ UNCHANGED <<queue, subscribers, bus_running, worker_task, workers, published,
                   putters, stopping, inv_log, completed, stop_log>>
    /\ finished' = finished \cup {<<e, calls[e][k].h>>}
    /\ UNCHANGED first_failed

\* A handler exception that fails the whole fan-out: the siblings are cancelled.
HandlerRaiseFailFast(e, k) ==
    /\ calls[e][k].st = "running"
    /\ calls[e][k].h \notin ImportHandlers
    /\ calls' = [calls EXCEPT ![e] = [i \in 1..Len(@) |->
                    IF i = k THEN [@[i] EXCEPT !.st = "raised"]
                    ELSE IF Finished(@[i]) THEN @[i]
                    ELSE [@[i] EXCEPT !.st = "cancelled"]]]
    /\ UNCHANGED <<queue, subscribers, bus_running, worker_task, workers, published,
                   putters, stopping, inv_log, completed, stop_log>>
    /\ finished' = finished \cup {<<e, calls[e][k].h>>}
    /\ first_failed' = IF first_failed = 0 THEN e ELSE first_failed

\* A handler exception that escapes into the dispatch loop and ends it.
HandlerRaiseEscapes(e, k) ==
    /\ calls[e][k].st = "running"
    /\ calls[e][k].h \notin ImportHandlers
    /\ calls' = [calls EXCEPT ![e][k].st = "raised"]
    /\ workers' = [w \in WorkerIds |->
                     IF workers[w].ev = e /\ workers[w].st = "dispatching"
                     THEN [st |-> "done", ev |-> e] ELSE workers[w]]
    /\ UNCHANGED <<queue, subscribers, bus_running, worker_task, published,
                   putters, stopping, inv_log, completed, stop_log>>
    /\ finished' = finished \cup {<<e, calls[e][k].h>>}
    /\ first_failed' = IF first_failed = 0 THEN e ELSE first_failed

\* A handler exception after which the handler is called again.
HandlerRaiseRetried(e, k) ==
    /\ calls[e][k].st = "running"
    /\ calls[e][k].h \notin ImportHandlers
    /\ calls' = [calls EXCEPT ![e][k].st = "pending"]
    /\ UNCHANGED <<queue, subscribers, bus_running, worker_task, workers, published,
                   putters, stopping, inv_log, completed, stop_log, finished, first_failed>>

\* The handler raises: _call_handler catches and logs the exception.
HandlerRaise(e, k) ==
    /\ calls[e][k].st = "running"
    /\ calls[e][k].h \notin ImportHandlers
    /\ calls' = [calls EXCEPT ![e][k].st = "raised"]
    /\ UNCHANGED <<queue, subscribers, bus_running, worker_task, workers, published,
                   putters, stopping, inv_log, completed, stop_log>>
    /\ finished' = finished \cup {<<e, calls[e][k].h>>}
    /\ first_failed' = IF first_failed = 0 THEN e ELSE first_failed

\* gather() returns to _process_events once every handler task has ended; the
\* handler tasks of the event are dropped.
GatherDone(w) ==
    /\ workers[w].st = "dispatching"
    /\ \A k \in 1..Len(calls[workers[w].ev]) :
           calls[workers[w].ev][k].st \in {"returned", "raised"}
    /\ completed' = completed \cup {workers[w].ev}
    /\ calls' = [calls EXCEPT ![workers[w].ev] = <<>>]
    /\ workers' = [workers EXCEPT ![w] = [st |-> "getting", ev |-> 0]]
    /\ UNCHANGED <<queue, subscribers, bus_running, worker_task, published,
                   putters, stopping, inv_log, stop_log, finished, first_failed>>

CallIds == {<<e, k>> \in (1..Len(calls)) \X (1..MaxSubs) : k <= Len(calls[e])}

BusNext ==
    \/ \E t \in BusSubscribeTypes : Subscribe(t, TestHandlers[SumLen(EventTypes) + 1])
    \/ \E t \in BusPublishTypes : PublishCall(MkEvent(t, "manual", "test", "", "", 0))
    \/ PublishResume
    \/ Start
    \/ StopCall
    \/ \E w \in WorkerIds : WorkerCancelled(w)
    \/ \E w \in WorkerIds : StopReturn(w)
    \/ \E w \in WorkerIds : WorkerGet(w)
    \/ \E c \in CallIds : HandlerStart(c[1], c[2])
    \/ \E c \in CallIds : HandlerReturn(c[1], c[2])
    \/ \E c \in CallIds : HandlerRaise(c[1], c[2])
    \/ \E w \in WorkerIds : GatherDone(w)

(***************************************************************************)
(* The bot: the handlers TradingBot.start registers, the scheduler jobs    *)
(* and the manual scan trigger, on a started bus.                          *)
(***************************************************************************)
BotSubscribers ==
    [t \in EventTypes |->
        CASE t = "AnnouncementFoundEvent" ->
                 <<"DiscordHandler.on_announcement", "StrategyHandler.on_announcement">>
          [] t = "ScanCompletedEvent" -> <<"DiscordHandler.on_scan_complete">>
          [] t = "DownloadStartedEvent" -> <<"ImportHandler.on_download_started">>
          [] t = "ImportStartedEvent" -> <<"ImportHandler.on_import_started">>
          [] OTHER -> <<>>]

BotInit ==
    /\ maxsize = MaxQueue
    /\ queue = <<>>
    /\ subscribers = BotSubscribers
    /\ bus_running = TRUE
    /\ worker_task = 1
    /\ workers = [w \in WorkerIds |-> IF w = 1 THEN [st |-> "getting", ev |-> 0] ELSE NoWorker]
    /\ calls = <<>>
    /\ published = <<>>
    /\ putters = <<>>
    /\ stopping = {}
    /\ inv_log = <<>>
    /\ completed = {}
    /\ stop_log = [w \in WorkerIds |-> NoStop]
    /\ finished = {}
    /\ first_failed = 0

\* SchedulerService._trigger_scan
TriggerScan == PublishCall(MkEvent("ScanStartedEvent", "scheduled", "scan_cron", "", "", 0))

\* SchedulerService._trigger_download
TriggerDownload ==
    PublishCall(MkEvent("DownloadStartedEvent", "scheduled", "download_cron", "", "", 0))

\* An import job that reuses the correlation id of the download job.
TriggerImportReusesId ==
    PublishCall(MkEvent("ImportStartedEvent", "scheduled", "download_cron", "", "", 0))

\* SchedulerService._trigger_import
TriggerImport ==
    PublishCall(MkEvent("ImportStartedEvent", "scheduled", "import_cron", "", "", 0))

\* POST /scanners/trigger
ManualTriggerScan == PublishCall(MkEvent("ScanStartedEvent", "manual", "uuid", "", "", 0))

\* What the download or the import does: a file, no file, counts, or an exception.
WorkOutcomes(h) ==
    IF h = "ImportHandler.on_download_started" THEN {"file", "nofile", "raise"}
    ELSE {"counts", "raise"}

\* A completion status that ignores the exception.
CompletionStatusNoError(outcome) ==
    IF outcome = "nofile" THEN "skipped" ELSE "success"

\* status of the completion event: "error" from the except branch, else
\* "success", or "skipped" when the download returned no file.
CompletionStatus(outcome) ==
    IF outcome = "raise" THEN "error"
    ELSE IF outcome = "nofile" THEN "skipped" ELSE "success"

\* The completion event the import handler publishes for event e.
Completion(e, outcome) ==
    MkEvent(IF published[e].type = "DownloadStartedEvent"
            THEN "DownloadCompletedEvent" ELSE "ImportCompletedEvent",
            published[e].source,
            published[e].correlation_id,
            CompletionStatus(outcome),
            IF outcome \in {"file", "counts"} THEN outcome ELSE "none",
            e)

\* on_download_started / on_import_started up to the end of
\* await self.event_bus.publish(...): the work ends with a result or an
\* exception, the completion event is built and put on the queue, and the
\* handler returns. When the queue is full the handler is suspended in put();
\* only the dispatch loop takes events off the queue, and it is awaiting this
\* handler, so the put can end only by the cancellation stop() sends.
ImportWork(e, k, outcome) ==
    /\ calls[e][k].st = "running"
    /\ calls[e][k].h \in ImportHandlers
    /\ outcome \in WorkOutcomes(calls[e][k].h)
    /\ IF QueueFull
       THEN /\ calls' = [calls EXCEPT ![e][k].st = "publishing",
                                      ![e][k].res = outcome,
                                      ![e][k].out = Completion(e, outcome)]
            /\ UNCHANGED <<queue, published, finished>>
       ELSE /\ published' = Append(published, Completion(e, outcome))
            /\ queue' = Append(queue, Len(published) + 1)
            /\ calls' = Append([calls EXCEPT ![e][k].st = "returned",
                                             ![e][k].res = outcome], <<>>)
            /\ finished' = finished \cup {<<e, calls[e][k].h>>}
    /\ UNCHANGED <<subscribers, bus_running, worker_task, workers, putters, stopping,
                   inv_log, completed, stop_log, first_failed>>

\* The callbacks of the Discord and strategy handlers.
NotifyHandlers ==
    {"DiscordHandler.on_announcement", "DiscordHandler.on_scan_complete",
     "StrategyHandler.on_announcement"}

\* What the collaborator a callback awaits does: it returns or it raises.
\* on_scan_complete only logs.
NotifyOutcomes(h) ==
    IF h = "DiscordHandler.on_scan_complete" THEN {"ok"} ELSE {"ok", "raise"}

\* A callback without its try / except.
NotifyWorkNoCatch(e, k, outcome) ==
    /\ calls[e][k].st = "running"
    /\ calls[e][k].h \in NotifyHandlers
    /\ outcome \in NotifyOutcomes(calls[e][k].h)
    /\ calls' = [calls EXCEPT ![e][k].st = IF outcome = "raise" THEN "raised" ELSE "returned",
                              ![e][k].res = outcome]
    /\ finished' = finished \cup {<<e, calls[e][k].h>>}
    /\ UNCHANGED <<queue, subscribers, bus_running, worker_task, workers, published,
                   putters, stopping, inv_log, completed, stop_log, first_failed>>

\* on_announcement of the Discord or the strategy handler: await the webhook
\* or the strategy trigger inside try / except Exception, log a failure, and
\* return; on_scan_complete: log and return.
NotifyWork(e, k, outcome) ==
    /\ calls[e][k].st = "running"
    /\ calls[e][k].h \in NotifyHandlers
    /\ outcome \in NotifyOutcomes(calls[e][k].h)
    /\ calls' = [calls EXCEPT ![e][k].st = "returned", ![e][k].res = outcome]
    /\ finished' = finished \cup {<<e, calls[e][k].h>>}
    /\ UNCHANGED <<queue, subscribers, bus_running, worker_task, workers, published,
                   putters, stopping, inv_log, completed, stop_log, first_failed>>

\* ScannerService.scan publishes an AnnouncementFound or a ScanCompleted event.
ScanEmit(t) == PublishCall(MkEvent(t, "manual", "manual_scan", "", "", 0))

\* The events the bot's handlers are subscribed to, and their callbacks.
HandlersNext ==
    \/ \E t \in {"AnnouncementFoundEvent", "ScanCompletedEvent"} : ScanEmit(t)
    \/ TriggerDownload
    \/ TriggerImport
    \/ PublishResume
    \/ \E w \in WorkerIds : WorkerGet(w)
    \/ \E c \in CallIds : HandlerStart(c[1], c[2])
    \/ \E c \in CallIds, o \in {"ok", "raise"} : NotifyWork(c[1], c[2], o)
    \/ \E c \in CallIds, o \in {"file", "nofile", "counts", "raise"} : ImportWork(c[1], c[2], o)
    \/ \E w \in WorkerIds : GatherDone(w)

BotNext ==
    \/ TriggerScan
    \/ TriggerDownload
    \/ TriggerImport
    \/ ManualTriggerScan
    \/ PublishResume
    \/ StopCall
    \/ \E w \in WorkerIds : WorkerCancelled(w)
    \/ \E w \in WorkerIds : StopReturn(w)
    \/ \E w \in WorkerIds : WorkerGet(w)
    \/ \E c \in CallIds : HandlerStart(c[1], c[2])
    \/ \E c \in CallIds, o \in {"file", "nofile", "counts", "raise"} : ImportWork(c[1], c[2], o)
    \/ \E w \in WorkerIds : GatherDone(w)

\* The bus with start() and stop() called in any order, any number of times.
LifeNext ==
    \/ \E t \in BusSubscribeTypes : Subscribe(t, TestHandlers[SumLen(EventTypes) + 1])
    \/ \E t \in BusPublishTypes : PublishCall(MkEvent(t, "manual", "test", "", "", 0))
    \/ PublishResume
    \/ Restart
    \/ StopCall
    \/ \E w \in WorkerIds : WorkerCancelled(w)
    \/ \E w \in WorkerIds : StopReturn(w)
    \/ \E w \in WorkerIds : WorkerGet(w)
    \/ \E c \in CallIds : HandlerStart(c[1], c[2])
    \/ \E c \in CallIds : HandlerReturn(c[1], c[2])
    \/ \E c \in CallIds : HandlerRaise(c[1], c[2])
    \/ \E w \in WorkerIds : GatherDone(w)

(***************************************************************************)
(* The scan event flow: a bus constructed with the default capacity and    *)
(* started, one handler subscribed to the three scan event types, and one  *)
(* producer that publishes one event after the other.                      *)
(***************************************************************************)
DefaultQueueSize == 1000

FlowTypes == {"ScanStartedEvent", "AnnouncementFoundEvent", "ScanCompletedEvent"}

FlowSubscribers == [t \in EventTypes |-> IF t \in FlowTypes THEN <<"capture">> ELSE <<>>]

FlowInit ==
    /\ maxsize = DefaultQueueSize
    /\ queue = <<>>
    /\ subscribers = FlowSubscribers
    /\ bus_running = TRUE
    /\ worker_task = 1
    /\ workers = [w \in WorkerIds |-> IF w = 1 THEN [st |-> "getting", ev |-> 0] ELSE NoWorker]
    /\ calls = <<>>
    /\ published = <<>>
    /\ putters = <<>>
    /\ stopping = {}
    /\ inv_log = <<>>
    /\ completed = {}
    /\ stop_log = [w \in WorkerIds |-> NoStop]
    /\ finished = {}
    /\ first_failed = 0

\* The producer publishes its next event once its previous publish() returned.
FlowPublish(t) ==
    /\ putters = <<>>
    /\ PublishCall(MkEvent(t, "manual", "test", "", "", 0))

FlowNext ==
    \/ \E t \in FlowTypes : FlowPublish(t)
    \/ StopCall
    \/ \E w \in WorkerIds : WorkerCancelled(w)
    \/ \E w \in WorkerIds : StopReturn(w)
    \/ \E w \in WorkerIds : WorkerGet(w)
    \/ \E c \in CallIds : HandlerStart(c[1], c[2])
    \/ \E c \in CallIds : HandlerReturn(c[1], c[2])
    \/ \E c \in CallIds : HandlerRaise(c[1], c[2])
    \/ \E w \in WorkerIds : GatherDone(w)

(***************************************************************************)
(* SchedulerService (app/services/scheduler_service.py): the cron          *)
(* scheduler with its three jobs, on the bus of the running bot.           *)
(***************************************************************************)
Jobs == {"scan_trigger", "download_trigger", "import_trigger"}

SchedInit ==
    /\ sched_running = FALSE
    /\ cron_started = FALSE
    /\ cron_calls = <<>>
    /\ sched_calls = 0
    /\ job_log = <<>>

\* A start() that does not look at the running flag.
SchedStartUnguarded ==
    /\ sched_calls < MaxSchedCalls
    /\ sched_calls' = sched_calls + 1
    /\ cron_started' = TRUE
    /\ cron_calls' = Append(cron_calls, "start")
    /\ sched_running' = TRUE
    /\ UNCHANGED job_log
    /\ UNCHANGED <<scanVars, busVars, maxsize, dataVars>>

\* start(): under the lock, return when running, else start the cron
\* scheduler and set the flag. Nothing in the body suspends, so the lock is
\* free whenever a call begins and the call is one step.
SchedStart ==
    /\ sched_calls < MaxSchedCalls
    /\ sched_calls' = sched_calls + 1
    /\ IF sched_running
       THEN UNCHANGED <<sched_running, cron_started, cron_calls>>
       ELSE /\ cron_started' = TRUE
            /\ cron_calls' = Append(cron_calls, "start")
            /\ sched_running' = TRUE
    /\ UNCHANGED job_log
    /\ UNCHANGED <<scanVars, busVars, maxsize, dataVars>>

\* stop(): under the lock, return when not running, else shut the cron
\* scheduler down and clear the flag.
SchedStop ==
    /\ sched_calls < MaxSchedCalls
    /\ sched_calls' = sched_calls + 1
    /\ IF ~sched_running
       THEN UNCHANGED <<sched_running, cron_started, cron_calls>>
       ELSE /\ cron_started' = FALSE
            /\ cron_calls' = Append(cron_calls, "shutdown")
            /\ sched_running' = FALSE
    /\ UNCHANGED job_log
    /\ UNCHANGED <<scanVars, busVars, maxsize, dataVars>>

\* is_running()
IsRunning == sched_running

\* The coroutine initialize() registers for each job.
JobTrigger(j) ==
    CASE j = "scan_trigger" -> TriggerScan
      [] j = "download_trigger" -> TriggerDownload
      [] j = "import_trigger" -> TriggerImport

\* The started cron scheduler fires a job: it runs the job's coroutine.
JobFire(j) ==
    /\ cron_started
    /\ JobTrigger(j)
    /\ job_log' = Append(job_log, j)
    /\ UNCHANGED <<sched_running, cron_started, cron_calls, sched_calls>>
    /\ UNCHANGED <<scanVars, maxsize, dataVars>>

SchedNext ==
    \/ SchedStart
    \/ SchedStop
    \/ \E j \in Jobs : JobFire(j)
    \/ PublishResume /\ UNCHANGED <<scanVars, maxsize, schedVars, dataVars>>
    \/ (\E w \in WorkerIds : WorkerGet(w)) /\ UNCHANGED <<scanVars, maxsize, schedVars, dataVars>>
    \/ (\E c \in CallIds : HandlerStart(c[1], c[2])) /\ UNCHANGED <<scanVars, maxsize, schedVars, dataVars>>
    \/ (\E c \in CallIds, o \in {"file", "nofile", "counts", "raise"} : ImportWork(c[1], c[2], o))
           /\ UNCHANGED <<scanVars, maxsize, schedVars, dataVars>>
    \/ (\E w \in WorkerIds : GatherDone(w)) /\ UNCHANGED <<scanVars, maxsize, schedVars, dataVars>>

(***************************************************************************)
(* Bar data (app/external/vnpy/database.py). Prices are whole numbers of   *)
(* the smallest price step and datetimes are day numbers; the database     *)
(* returns the daily bars of a symbol oldest first, one bar per day.       *)
(***************************************************************************)
MaxPrice == 2
MaxBars == 3
Today == 60
DaysPerMonth == 30

Symbols == {"AAA", "BBB"}
Prices == 0..MaxPrice
BarDays == {10, 20, 50}

Bar(dt, open, high, low, close, volume) ==
    [dt |-> dt, open |-> open, high |-> high, low |-> low, close |-> close,
     volume |-> volume]

\* The time-ordered series of at most n bars drawn from the bars B.
RECURSIVE Series(_, _)
Series(B, n) ==
    IF n = 0 THEN {<<>>}
    ELSE LET shorter == Series(B, n - 1)
             longest == {s \in shorter : Len(s) = n - 1}
         IN  shorter \cup
             UNION {{Append(s, b) : b \in {x \in B : n = 1 \/ s[n - 1].dt < x.dt}} :
                        s \in longest}

\* Two days of one symbol: an open above, and below, the previous close.
UpGapSeries == <<Bar(20, 1, 2, 0, 1, 1), Bar(50, 2, 2, 0, 2, 1)>>
DownGapSeries == <<Bar(20, 2, 2, 0, 2, 1), Bar(50, 1, 2, 0, 1, 1)>>

Stored(bars) == [fails |-> FALSE, bars |-> bars]
LoadFails == [fails |-> TRUE, bars |-> <<>>]
NoData == Stored(<<>>)

\* What a load_bars call does: it returns bars, or raises.
Loaded(bars) == [raised |-> FALSE, bars |-> bars]
LoadRaises == [raised |-> TRUE, bars |-> <<>>]

\* A load_bars that lets the exception of the underlying load through.
LoadBarsNoCatch(symbol) ==
    IF db[symbol].fails THEN LoadRaises ELSE Loaded(db[symbol].bars)

\* DatabaseManager.load_bars: the bars of the symbol, and the empty list
\* when the underlying load raises.
LoadBars(symbol) ==
    IF db[symbol].fails THEN Loaded(<<>>) ELSE Loaded(db[symbol].bars)

NotCalled == [kind |-> "not_called"]
NoRange == [kind |-> "none"]

\* Each component before any call is made on it.
AnnIdle ==
    /\ ann_args = NotCalled
    /\ ann_result = NotCalled
    /\ announcement_tracker = [s \in Symbols |-> 0]

ExecIdle ==
    /\ scan_request = NotCalled
    /\ exec_result = NotCalled

DateIdle ==
    /\ date_result = NotCalled
    /\ date_log = <<>>

OrIdle ==
    /\ or_cache = [s \in Symbols |-> NoRange]
    /\ or_call = NotCalled
    /\ or_got = NotCalled

TrackIdle ==
    /\ reg_log = <<>>
    /\ check_result = NotCalled

ServiceIdle ==
    /\ svc_pc = "idle"
    /\ svc_data = NotCalled
    /\ svc_todo = <<>>
    /\ svc_count = 0
    /\ svc_log = <<>>

GapIdle ==
    /\ gap_args = NotCalled
    /\ gap_result = NotCalled

FilterIdle ==
    /\ filter_args = NotCalled
    /\ filter_log = <<>>

DataInit ==
    /\ db = [s \in Symbols |-> NoData]
    /\ AnnIdle
    /\ ExecIdle
    /\ DateIdle
    /\ OrIdle
    /\ TrackIdle
    /\ ServiceIdle
    /\ GapIdle
    /\ FilterIdle

(***************************************************************************)
(* AnnouncementGapScanner (app/scanners/gap/announcement_gap_scanner.py).  *)
(* A percentage is kept as the exact fraction num/den with den > 0.        *)
(***************************************************************************)
Max(S) == CHOOSE x \in S : \A y \in S : y <= x

\* (open - previous close) / previous close * 100
GapPct(open, prev_close) == [num |-> (open - prev_close) * 100, den |-> prev_close]

\* f < n for a fraction f and a whole number n
FracLt(f, n) == f.num < n * f.den

\* The fallback of _calculate_six_month_high taken from the oldest bar.
CalculateSixMonthHighOldest(bars, lookback_months) ==
    LET cutoff_date == Today - lookback_months * DaysPerMonth
        relevant_bars == {i \in 1..Len(bars) : bars[i].dt >= cutoff_date}
    IN  IF Len(bars) = 0 THEN 0
        ELSE IF relevant_bars = {} THEN bars[1].high
        ELSE Max({bars[i].high : i \in relevant_bars})

\* _calculate_six_month_high
CalculateSixMonthHigh(bars, lookback_months) ==
    LET cutoff_date == Today - lookback_months * DaysPerMonth
        relevant_bars == {i \in 1..Len(bars) : bars[i].dt >= cutoff_date}
    IN  IF Len(bars) = 0 THEN 0
        ELSE IF relevant_bars = {} THEN bars[Len(bars)].high
        ELSE Max({bars[i].high : i \in relevant_bars})

NoCandidate == [kind |-> "none"]
Raises == [kind |-> "raise"]

AnnouncementGapCandidate(symbol, gap_pct, six_month_high, current_price, announcement_time) ==
    [kind |-> "candidate", symbol |-> symbol, gap_pct |-> gap_pct,
     six_month_high |-> six_month_high, current_price |-> current_price,
     announcement_time |-> announcement_time]

\* _evaluate_symbol with a high check that lets a close equal to the high pass.
EvaluateSymbolNonStrict(symbol, ann_time, min_price, min_gap_pct, lookback_months) ==
    LET load == LoadBars(symbol)
        bars == load.bars
        latest_bar == bars[Len(bars)]
        previous_bar == bars[Len(bars) - 1]
        gap_pct == GapPct(latest_bar.open, previous_bar.close)
        six_month_high == CalculateSixMonthHigh(bars, lookback_months)
    IN  IF load.raised THEN Raises
        ELSE IF Len(bars) < 2 THEN NoCandidate
        ELSE IF latest_bar.close < min_price THEN NoCandidate
        ELSE IF previous_bar.close = 0 THEN Raises
        ELSE IF FracLt(gap_pct, min_gap_pct) THEN NoCandidate
        ELSE IF latest_bar.close < six_month_high THEN NoCandidate
        ELSE AnnouncementGapCandidate(symbol, gap_pct, six_month_high,
                                      latest_bar.close, ann_time)

\* _evaluate_symbol: None for a rejected symbol, the candidate for an
\* accepted one; the division raises ZeroDivisionError for a zero previous
\* close.
EvaluateSymbol(symbol, ann_time, min_price, min_gap_pct, lookback_months) ==
    LET load == LoadBars(symbol)
        bars == load.bars
        latest_bar == bars[Len(bars)]
        previous_bar == bars[Len(bars) - 1]
        gap_pct == GapPct(latest_bar.open, previous_bar.close)
        six_month_high == CalculateSixMonthHigh(bars, lookback_months)
    IN  IF load.raised THEN Raises
        ELSE IF Len(bars) < 2 THEN NoCandidate
        ELSE IF latest_bar.close < min_price THEN NoCandidate
        ELSE IF previous_bar.close = 0 THEN Raises
        ELSE IF FracLt(gap_pct, min_gap_pct) THEN NoCandidate
        ELSE IF latest_bar.close <= six_month_high THEN NoCandidate
        ELSE AnnouncementGapCandidate(symbol, gap_pct, six_month_high,
                                      latest_bar.close, ann_time)

\* register_announcement
RegisterAnnouncement(tracker, symbol, announcement_time) ==
    [tracker EXCEPT ![symbol] = announcement_time]

\* The state of the scan_candidates loop: the candidates so far, the
\* tracker, and whether an exception left the loop.
LoopState(candidates, tracker, raised) ==
    [candidates |-> candidates, tracker |-> tracker, raised |-> raised]

\* One iteration of the loop without its try/except.
EvaluateItemNoCatch(acc, item, args) ==
    LET candidate == EvaluateSymbol(item.symbol, item.time, args.min_price,
                                    args.min_gap_pct, args.lookback_months)
    IN  IF acc.raised THEN acc
        ELSE IF candidate.kind = "candidate"
        THEN LoopState(Append(acc.candidates, candidate),
                       RegisterAnnouncement(acc.tracker, item.symbol, item.time), FALSE)
        ELSE IF candidate.kind = "raise"
        THEN LoopState(acc.candidates, acc.tracker, TRUE)
        ELSE acc

\* One iteration of the loop that registers the announcement before it
\* evaluates the symbol.
EvaluateItemRegistersAll(acc, item, args) ==
    LET candidate == EvaluateSymbol(item.symbol, item.time, args.min_price,
                                    args.min_gap_pct, args.lookback_months)
        tracker == RegisterAnnouncement(acc.tracker, item.symbol, item.time)
    IN  IF candidate.kind = "candidate"
        THEN LoopState(Append(acc.candidates, candidate), tracker, FALSE)
        ELSE LoopState(acc.candidates, tracker, FALSE)

\* One iteration of the loop of scan_candidates: evaluate the symbol, append
\* and register an accepted one, log and go on when the evaluation raises.
EvaluateItem(acc, item, args) ==
    LET candidate == EvaluateSymbol(item.symbol, item.time, args.min_price,
                                    args.min_gap_pct, args.lookback_months)
    IN  IF candidate.kind = "candidate"
        THEN LoopState(Append(acc.candidates, candidate),
                       RegisterAnnouncement(acc.tracker, item.symbol, item.time), FALSE)
        ELSE acc

RECURSIVE ScanLoop(_, _, _)
ScanLoop(items, args, acc) ==
    IF items = <<>> THEN acc
    ELSE ScanLoop(Tail(items), args, EvaluateItem(acc, Head(items), args))

\* scan_candidates. No await in it suspends, so the call is one step.
ScanCandidates ==
    /\ ann_args # NotCalled
    /\ ann_result = NotCalled
    /\ LET end == ScanLoop(ann_args.announcement_symbols, ann_args,
                           LoopState(<<>>, announcement_tracker, FALSE))
       IN  /\ ann_result' = [kind |-> IF end.raised THEN "raised" ELSE "returned",
                             candidates |-> end.candidates]
           /\ announcement_tracker' = end.tracker
    /\ UNCHANGED <<db, ann_args, execVars, dateVars, orVars, trackVars, svcVars, fnVars>>

\* The inputs of a scan_candidates call.
AnnBars == {Bar(d, o, h, 0, c, 0) : d \in BarDays, o \in Prices, h \in Prices, c \in Prices}
AnnTimes == {59}
AnnItems == [symbol : Symbols, time : AnnTimes]
AnnBatches == UNION {[1..k -> AnnItems] : k \in 1..2}
AnnArgs(items) ==
    [announcement_symbols : {items}, min_price : {1, 2}, min_gap_pct : {0, 100},
     lookback_months : {1, 2}]

\* Two-bar series that differ in what the evaluation reads: the previous
\* close, the latest open and close.
PairSeries ==
    {<<Bar(20, 1, 1, 0, pc, 0), Bar(50, o, 1, 0, c, 0)>> :
        pc \in Prices, o \in Prices, c \in Prices}
PairEntries == {LoadFails, NoData} \cup {Stored(s) : s \in PairSeries}

\* A symbol that is accepted, one whose evaluation raises, one that is
\* rejected and one whose bars cannot be loaded.
TrackedEntries ==
    {LoadFails,
     Stored(<<Bar(20, 1, 1, 0, 1, 0), Bar(50, 2, 1, 0, 2, 0)>>),
     Stored(<<Bar(20, 1, 1, 0, 0, 0), Bar(50, 2, 1, 0, 2, 0)>>),
     Stored(<<Bar(20, 1, 1, 0, 1, 0), Bar(50, 1, 1, 0, 1, 0)>>)}

\* The tracker as earlier scans left it: no entry, or that of the day before.
EarlierTrackers == [Symbols -> {0, 58}]

\* Either one symbol with any series of bars, or a batch over two symbols,
\* or a batch on a tracker that earlier scans have written.
AnnInit ==
    /\ ExecIdle
    /\ DateIdle
    /\ OrIdle
    /\ TrackIdle
    /\ ServiceIdle
    /\ GapIdle
    /\ FilterIdle
    /\ ann_result = NotCalled
    /\ \/ /\ db \in {[s \in Symbols |-> IF s = "AAA" THEN e ELSE NoData] :
                        e \in {LoadFails} \cup {Stored(s) : s \in Series(AnnBars, MaxBars)}}
          /\ ann_args \in AnnArgs(<<[symbol |-> "AAA", time |-> 59]>>)
          /\ announcement_tracker = [s \in Symbols |-> 0]
       \/ /\ db \in [Symbols -> PairEntries]
          /\ ann_args \in UNION {AnnArgs(b) : b \in AnnBatches}
          /\ announcement_tracker = [s \in Symbols |-> 0]
       \/ /\ db \in [Symbols -> TrackedEntries]
          /\ ann_args \in UNION {AnnArgs(b) : b \in AnnBatches}
          /\ announcement_tracker \in EarlierTrackers

AnnNext == ScanCandidates

(***************************************************************************)
(* GapDetector (app/scanner/gap_detector.py), PriceVolumeFilter            *)
(* (app/scanner/filters.py) and GapScanner._execute_scan                   *)
(* (app/scanner/scanner.py).                                               *)
(***************************************************************************)
Abs(n) == IF n < 0 THEN -n ELSE n
MaxOf(a, b) == IF a >= b THEN a ELSE b
MinOf(a, b) == IF a <= b THEN a ELSE b

\* abs(f) >= n for a fraction f and a whole number n
FracAbsGe(f, n) == Abs(f.num) >= n * f.den

Returned(value) == [raised |-> FALSE, value |-> value]
Raised == [raised |-> TRUE, value |-> <<>>]

OpeningRangeResult(symbol, orh, orl, price, sample_time) ==
    [symbol |-> symbol, orh |-> orh, orl |-> orl, price |-> price,
     sample_time |-> sample_time]

\* A detect_gaps_from_bars that takes the signed gap for its test.
DetectGapsFromBarsSigned(symbol, bars, gap_threshold) ==
    LET pairs == [k \in 1..(Len(bars) - 1) |-> k + 1]
        Qualifies(i) ==
            ~FracLt(GapPct(bars[i].open, bars[i - 1].close), gap_threshold)
        Result(i) ==
            OpeningRangeResult(symbol, MaxOf(bars[i].high, bars[i].open),
                               MinOf(bars[i].low, bars[i].open), bars[i].open,
                               bars[i].dt)
        qualifying == SelectSeq(pairs, Qualifies)
    IN  IF Len(bars) < 2 THEN Returned(<<>>)
        ELSE IF \E i \in 2..Len(bars) : bars[i - 1].close = 0 THEN Raised
        ELSE Returned([k \in 1..Len(qualifying) |-> Result(qualifying[k])])

\* detect_gaps_from_bars: one result per adjacent pair whose gap reaches the
\* threshold, in bar order; the division raises for a zero previous close.
DetectGapsFromBars(symbol, bars, gap_threshold) ==
    LET pairs == [k \in 1..(Len(bars) - 1) |-> k + 1]
        Qualifies(i) ==
            FracAbsGe(GapPct(bars[i].open, bars[i - 1].close), gap_threshold)
        Result(i) ==
            OpeningRangeResult(symbol, MaxOf(bars[i].high, bars[i].open),
                               MinOf(bars[i].low, bars[i].open), bars[i].open,
                               bars[i].dt)
        qualifying == SelectSeq(pairs, Qualifies)
    IN  IF Len(bars) < 2 THEN Returned(<<>>)
        ELSE IF \E i \in 2..Len(bars) : bars[i - 1].close = 0 THEN Raised
        ELSE Returned([k \in 1..Len(qualifying) |-> Result(qualifying[k])])

Reverse(seq) == [k \in 1..Len(seq) |-> seq[Len(seq) + 1 - k]]

\* A filter_by_price that puts each passing symbol in front of the others.
FilterByPricePrepends(symbols, min_price) ==
    Reverse(SelectSeq(symbols, LAMBDA s :
        LET bars == LoadBars(s).bars
        IN  bars # <<>> /\ bars[Len(bars)].close >= min_price))

\* filter_by_price: the symbols that have bars and a latest close of at
\* least min_price, in the order given.
FilterByPrice(symbols, min_price) ==
    SelectSeq(symbols, LAMBDA s :
        LET bars == LoadBars(s).bars
        IN  bars # <<>> /\ bars[Len(bars)].close >= min_price)

\* filter_by_volume
FilterByVolume(symbols, min_volume) ==
    SelectSeq(symbols, LAMBDA s :
        LET bars == LoadBars(s).bars
        IN  bars # <<>> /\ bars[Len(bars)].volume >= min_volume)

\* apply_filters
ApplyFilters(symbols, min_price, min_volume) ==
    FilterByVolume(FilterByPrice(symbols, min_price), min_volume)

\* GapCandidate(...): the model validates gap_percent >= 0 and raises a
\* ValidationError otherwise.
GapCandidate(symbol, gap_percent, gap_direction, previous_close, open_price, volume, timestamp) ==
    IF gap_percent.num < 0 THEN Raised
    ELSE Returned([symbol |-> symbol, gap_percent |-> gap_percent,
                   gap_direction |-> gap_direction,
                   previous_close |-> previous_close, open_price |-> open_price,
                   volume |-> volume, price |-> open_price,
                   timestamp |-> timestamp])

\* The candidate _execute_scan builds for a detected gap: its previous close
\* is the close of the last but one bar of the series.
CandidateOf(bars, gap) ==
    LET prev_close == bars[Len(bars) - 1].close
        gap_percent == GapPct(gap.price, prev_close)
    IN  IF prev_close = 0 THEN Raised
        ELSE GapCandidate(gap.symbol, gap_percent,
                          IF gap_percent.num >= 0 THEN "up" ELSE "down",
                          prev_close, gap.price, bars[Len(bars)].volume,
                          gap.sample_time)

\* The body of the loop of _execute_scan for one symbol of the overview.
SymbolCandidates(symbol, request) ==
    LET load == LoadBars(symbol)
        bars == load.bars
        detected_gaps == DetectGapsFromBars(symbol, bars, request.gap_threshold)
        built == [k \in 1..Len(detected_gaps.value) |->
                     CandidateOf(bars, detected_gaps.value[k])]
    IN  IF load.raised THEN Raised
        ELSE IF bars = <<>> THEN Returned(<<>>)
        ELSE IF detected_gaps.raised THEN Raised
        ELSE IF \E k \in 1..Len(built) : built[k].raised THEN Raised
        ELSE Returned([k \in 1..Len(built) |-> built[k].value])

RECURSIVE RawCandidates(_, _)
RawCandidates(overview, request) ==
    IF overview = <<>> THEN Returned(<<>>)
    ELSE LET first == SymbolCandidates(Head(overview), request)
             rest == RawCandidates(Tail(overview), request)
         IN  IF first.raised \/ rest.raised THEN Raised
             ELSE Returned(first.value \o rest.value)

\* candidates[: max_results]
Truncate(seq, max_results) == SubSeq(seq, 1, MinOf(Len(seq), max_results))

\* _execute_scan over the symbols of the overview.
ExecuteScanOver(overview, request) ==
    LET raw == RawCandidates(overview, request)
        symbols == [k \in 1..Len(raw.value) |-> raw.value[k].symbol]
        filtered == ApplyFilters(symbols, request.min_price, request.min_volume)
        kept == SelectSeq(raw.value,
                          LAMBDA c : \E k \in 1..Len(filtered) : filtered[k] = c.symbol)
    IN  IF raw.raised THEN Raised
        ELSE Returned(Truncate(kept, request.max_results))

\* get_overview: the symbols of the database.
Overview == <<"AAA", "BBB">>

\* _execute_scan. None of its awaits suspends, so the call is one step.
ExecuteScan ==
    /\ scan_request # NotCalled
    /\ exec_result = NotCalled
    /\ exec_result' = ExecuteScanOver(Overview, scan_request)
    /\ UNCHANGED <<db, scan_request, annVars, dateVars, orVars, trackVars, svcVars, fnVars>>

\* The inputs of an _execute_scan call: one symbol with any series of bars,
\* beside a symbol that has an up gap, no bars, or a failing load.
ExecBars ==
    {Bar(d, o, MaxPrice, 0, c, v) : d \in BarDays, o \in Prices, c \in Prices, v \in 0..1}
ScanRequests ==
    [gap_threshold : {0, 50}, min_price : {1, 2}, min_volume : {1},
     max_results : {1, 2}]

ExecInit ==
    /\ db \in {[s \in Symbols |-> IF s = "AAA" THEN a ELSE b] :
                    a \in {LoadFails} \cup {Stored(s) : s \in Series(ExecBars, MaxBars)},
                    b \in {LoadFails, NoData, Stored(UpGapSeries)}}
    /\ scan_request \in ScanRequests
    /\ exec_result = NotCalled
    /\ AnnIdle
    /\ DateIdle
    /\ OrIdle
    /\ TrackIdle
    /\ ServiceIdle
    /\ GapIdle
    /\ FilterIdle

ExecNext == ExecuteScan

(***************************************************************************)
(* GapScanner.get_candidates_for_date (app/scanner/scanner.py).            *)
(***************************************************************************)
MaxDateCalls == 1

\* The candidates get_candidates_for_date collects for one symbol of the
\* overview: one per bar of the date that has a bar before it, and the same
\* again, as the loop over the bars is written twice.
DateCandidates(symbol, date) ==
    LET load == LoadBars(symbol)
        bars == load.bars
        pairs == [k \in 1..(Len(bars) - 1) |-> k + 1]
        matching == SelectSeq(pairs, LAMBDA i : bars[i].dt = date)
        Built(i) ==
            LET prev_close == bars[i - 1].close
                gap_percent == GapPct(bars[i].open, prev_close)
            IN  IF prev_close = 0 THEN Raised
                ELSE GapCandidate(symbol, gap_percent,
                                  IF gap_percent.num >= 0 THEN "up" ELSE "down",
                                  prev_close, bars[i].open, bars[i].volume, bars[i].dt)
        built == [k \in 1..Len(matching) |-> Built(matching[k])]
        once == [k \in 1..Len(built) |-> built[k].value]
    IN  IF load.raised THEN Raised
        ELSE IF bars = <<>> THEN Returned(<<>>)
        ELSE IF \E k \in 1..Len(built) : built[k].raised THEN Raised
        ELSE Returned(once \o once)

RECURSIVE CandidatesForDateOver(_, _)
CandidatesForDateOver(overview, date) ==
    IF overview = <<>> THEN Returned(<<>>)
    ELSE LET first == DateCandidates(Head(overview), date)
             rest == CandidatesForDateOver(Tail(overview), date)
         IN  IF first.raised \/ rest.raised THEN Raised
             ELSE Returned(first.value \o rest.value)

\* A get_candidates_for_date that records the number of its candidates in
\* the scan status, as start_scan does.
GetCandidatesForDateUpdatesStatus(date) ==
    /\ Len(date_log) < MaxDateCalls
    /\ date_result' = CandidatesForDateOver(Overview, date)
    /\ date_log' = Append(date_log, [date |-> date, running |-> status.running])
    /\ status' = [status EXCEPT !.last_scan_results = Len(date_result'.value)]
    /\ UNCHANGED <<db, annVars, execVars, orVars, trackVars, svcVars, fnVars>>
    /\ UNCHANGED <<scan_lock, lock_waiters, spc, response, now, contended, executed>>

\* get_candidates_for_date. None of its statements suspends, takes the scan
\* lock or touches the status; the call is one step, whatever the scanner
\* is doing.
GetCandidatesForDate(date) ==
    /\ Len(date_log) < MaxDateCalls
    /\ date_result' = CandidatesForDateOver(Overview, date)
    /\ date_log' = Append(date_log, [date |-> date, running |-> status.running])
    /\ UNCHANGED <<db, annVars, execVars, orVars, trackVars, svcVars, fnVars>>
    /\ UNCHANGED scanVars

QueryInit ==
    /\ db \in {[s \in Symbols |-> IF s = "AAA" THEN Stored(a) ELSE LoadFails] :
                   a \in {UpGapSeries, DownGapSeries}}
    /\ AnnIdle
    /\ ExecIdle
    /\ DateIdle
    /\ OrIdle
    /\ TrackIdle
    /\ ServiceIdle
    /\ GapIdle
    /\ FilterIdle

\* The scanner with start_scan calls and date queries arriving in any order.
QueryNext ==
    \/ \E c \in Callers : StartScanCall(c) /\ UNCHANGED dataVars
    \/ \E c \in Callers : LockAcquired(c) /\ UNCHANGED dataVars
    \/ \E c \in Callers, n \in 0..MaxCandidates : ScanSucceeds(c, n) /\ UNCHANGED dataVars
    \/ \E c \in Callers : ScanFails(c) /\ UNCHANGED dataVars
    \/ Tick /\ UNCHANGED dataVars
    \/ \E d \in BarDays : GetCandidatesForDate(d)

(***************************************************************************)
(* OpeningRangeTracker (app/scanner/opening_range.py).                     *)
(***************************************************************************)
OpeningRange(symbol, orh, orl, price, sample_time) ==
    [kind |-> "range", symbol |-> symbol, orh |-> orh, orl |-> orl,
     price |-> price, sample_time |-> sample_time]

\* _calculate_or_from_bars: the first bar dated sample_time, else the
\* latest bar.
CalculateOrFromBars(symbol, bars, sample_time) ==
    LET at == {i \in 1..Len(bars) : bars[i].dt = sample_time}
        target_bar == IF at = {} THEN bars[Len(bars)]
                      ELSE bars[CHOOSE i \in at : \A j \in at : i <= j]
    IN  OpeningRange(symbol, MaxOf(target_bar.high, target_bar.open),
                     MinOf(target_bar.low, target_bar.open), target_bar.open,
                     target_bar.dt)

\* The dictionary sample_opening_range builds: an entry for each symbol of
\* the list that has bars; a symbol whose load raises is logged and left
\* out.
SampleResult(symbols, sample_time) ==
    [s \in Symbols |->
        LET load == LoadBars(s)
        IN  IF (\E k \in 1..Len(symbols) : symbols[k] = s)
                /\ ~load.raised /\ load.bars # <<>>
            THEN CalculateOrFromBars(s, load.bars, sample_time)
            ELSE NoRange]

\* A sample_opening_range that updates the cache with its entries.
SampleOpeningRangeMerges(symbols, sample_time) ==
    LET result == SampleResult(symbols, sample_time)
    IN  /\ or_cache' = [s \in Symbols |->
                           IF result[s] # NoRange THEN result[s] ELSE or_cache[s]]
        /\ or_call' = [symbols |-> symbols, sample_time |-> sample_time,
                       bars |-> db, result |-> result]
        /\ UNCHANGED <<db, or_got, annVars, execVars, dateVars, trackVars, svcVars, fnVars>>

\* sample_opening_range: the cache becomes the dictionary of this call.
SampleOpeningRange(symbols, sample_time) ==
    LET result == SampleResult(symbols, sample_time)
    IN  /\ or_cache' = result
        /\ or_call' = [symbols |-> symbols, sample_time |-> sample_time,
                       bars |-> db, result |-> result]
        /\ UNCHANGED <<db, or_got, annVars, execVars, dateVars, trackVars, svcVars, fnVars>>

\* get_opening_range
GetOpeningRange(symbol) ==
    /\ or_got' = [symbol |-> symbol, value |-> or_cache[symbol]]
    /\ UNCHANGED <<db, or_cache, or_call, annVars, execVars, dateVars, trackVars, svcVars, fnVars>>

\* The bars of a symbol change between two calls.
OrEntries == {LoadFails, NoData, Stored(UpGapSeries), Stored(DownGapSeries)}

BarsChange(symbol, entry) ==
    /\ entry # db[symbol]
    /\ db' = [db EXCEPT ![symbol] = entry]
    /\ UNCHANGED <<orVars, annVars, execVars, dateVars, trackVars, svcVars, fnVars>>

SymbolLists == UNION {[1..k -> Symbols] : k \in 0..2}
SampleTimes == BarDays \cup {Today}

OrInit ==
    /\ db \in [Symbols -> OrEntries]
    /\ AnnIdle
    /\ ExecIdle
    /\ DateIdle
    /\ OrIdle
    /\ TrackIdle
    /\ ServiceIdle
    /\ GapIdle
    /\ FilterIdle

OrNext ==
    \/ \E symbols \in SymbolLists, t \in SampleTimes : SampleOpeningRange(symbols, t)
    \/ \E s \in Symbols : GetOpeningRange(s)
    \/ \E s \in Symbols, e \in OrEntries : BarsChange(s, e)

(***************************************************************************)
(* Specifications                                                          *)
(***************************************************************************)
(***************************************************************************)
(* The announcement tracker (app/strategies/announcement_gap_strategy.py): *)
(* register_announcement and check_announcement_today called in any order  *)
(* while the clock advances. Here the clock counts hours, and an           *)
(* announcement is registered with a time that has passed.                 *)
(***************************************************************************)
MaxNow == 3
MaxRegs == 2

LookbackHours == {1, 2}

\* register_announcement
RegisterAnnouncementCall(symbol, announcement_time) ==
    /\ Len(reg_log) < MaxRegs
    /\ announcement_tracker' =
            RegisterAnnouncement(announcement_tracker, symbol, announcement_time)
    /\ reg_log' = Append(reg_log, [symbol |-> symbol, time |-> announcement_time])
    /\ UNCHANGED <<db, ann_args, ann_result, execVars, dateVars, orVars, check_result, svcVars, fnVars>>
    /\ UNCHANGED scanVars

\* A check_announcement_today that drops the entry it finds stale.
CheckAnnouncementTodayPurges(symbol, lookback_hours) ==
    LET cutoff == now - lookback_hours
        fresh == announcement_tracker[symbol] >= cutoff
    IN  /\ check_result' =
                [symbol |-> symbol, lookback_hours |-> lookback_hours, now |-> now,
                 value |-> IF announcement_tracker[symbol] = 0 THEN FALSE ELSE fresh]
        /\ announcement_tracker' =
                IF announcement_tracker[symbol] # 0 /\ ~fresh
                THEN [announcement_tracker EXCEPT ![symbol] = 0]
                ELSE announcement_tracker
        /\ UNCHANGED <<db, ann_args, ann_result, execVars, dateVars, orVars, reg_log, svcVars, fnVars>>
        /\ UNCHANGED scanVars

\* check_announcement_today
CheckAnnouncementToday(symbol, lookback_hours) ==
    LET cutoff == now - lookback_hours
    IN  /\ check_result' =
                [symbol |-> symbol, lookback_hours |-> lookback_hours, now |-> now,
                 value |-> IF announcement_tracker[symbol] = 0 THEN FALSE
                           ELSE announcement_tracker[symbol] >= cutoff]
        /\ UNCHANGED <<db, annVars, execVars, dateVars, orVars, reg_log, svcVars, fnVars>>
        /\ UNCHANGED scanVars

\* An hour passes.
ClockAdvance ==
    /\ now < MaxNow
    /\ now' = now + 1
    /\ UNCHANGED <<status, scan_lock, lock_waiters, spc, response, contended, executed>>
    /\ UNCHANGED dataVars

TrackNext ==
    \/ \E s \in Symbols, t \in 1..MaxNow : t <= now /\ RegisterAnnouncementCall(s, t)
    \/ \E s \in Symbols, h \in LookbackHours : CheckAnnouncementToday(s, h)
    \/ ClockAdvance

(***************************************************************************)
(* ScannerService.scan (app/services/scanner_service.py) on a started bus  *)
(* of the default capacity. One step per stretch of the coroutine between  *)
(* two awaits; the dispatch loop of the bus runs beside it.                *)
(***************************************************************************)
MaxData == 2

\* What result.data can hold: a dict with the four keys the loop reads, a
\* dict that lacks one of them, and an item that is no dict.
ItemKinds == {"complete", "missing_key", "not_dict"}
DataLists == UNION {[1..n -> ItemKinds] : n \in 0..MaxData}

\* ScanResult as execute() returns it.
ScanResultOf(success, is_list, items) ==
    [success |-> success, data |-> [is_list |-> is_list, items |-> items]]

ScanResults ==
    {ScanResultOf(FALSE, TRUE, <<>>), ScanResultOf(TRUE, FALSE, <<>>)}
        \cup {ScanResultOf(TRUE, TRUE, d) : d \in DataLists}

ScanStartedEvent == [type |-> "ScanStartedEvent", total_announcements |-> 0, processed_count |-> 0, success |-> TRUE]

AnnouncementFoundEvent == [type |-> "AnnouncementFoundEvent", total_announcements |-> 0, processed_count |-> 0, success |-> TRUE]

ScanCompletedEvent(total_announcements, processed_count, success) ==
    [type |-> "ScanCompletedEvent", total_announcements |-> total_announcements,
     processed_count |-> processed_count, success |-> success]

\* await self.event_bus.publish(ev) of the run: put() enqueues the event
\* when the queue has room.
ServicePublish(ev) ==
    /\ ~QueueFull
    /\ published' = Append(published, MkEvent(ev.type, "manual", "manual_scan", "", "", 0))
    /\ queue' = Append(queue, Len(published) + 1)
    /\ calls' = Append(calls, <<>>)
    /\ svc_log' = Append(svc_log, ev)
    /\ UNCHANGED <<subscribers, bus_running, worker_task, workers, putters, stopping,
                   inv_log, completed, stop_log, finished, first_failed>>

\* [a for a in result.data if isinstance(a, dict)], or [] for data that is
\* no list.
RECURSIVE DictsOf(_)
DictsOf(items) ==
    IF items = <<>> THEN <<>>
    ELSE IF Head(items) = "not_dict" THEN DictsOf(Tail(items))
    ELSE <<Head(items)>> \o DictsOf(Tail(items))

Announcements(data) == IF data.is_list THEN DictsOf(data.items) ELSE <<>>

\* scan() is called: ScanStarted is published.
ServiceScan ==
    /\ svc_pc = "idle"
    /\ ServicePublish(ScanStartedEvent)
    /\ svc_pc' = "execute"
    /\ UNCHANGED <<svc_data, svc_todo, svc_count>>

\* self.scanner.execute() raises.
ExecuteRaises ==
    /\ svc_pc = "execute"
    /\ svc_pc' = "except"
    /\ UNCHANGED <<svc_data, svc_todo, svc_count, svc_log>>
    /\ UNCHANGED busVars

\* self.scanner.execute() returns: a failed result is reported and the run
\* ends, a successful one is filtered and the loop begins.
ExecuteReturns(result) ==
    /\ svc_pc = "execute"
    /\ svc_data' = result.data
    /\ IF ~result.success
       THEN /\ ServicePublish(ScanCompletedEvent(0, 0, FALSE))
            /\ svc_pc' = "done"
            /\ UNCHANGED <<svc_todo, svc_count>>
       ELSE /\ svc_todo' = Announcements(result.data)
            /\ svc_count' = 0
            /\ svc_pc' = "loop"
            /\ UNCHANGED svc_log
            /\ UNCHANGED busVars

\* One iteration of the loop: announcement["ticker"] and the other three
\* subscripts raise KeyError for a missing key, else AnnouncementFound is
\* published and processed_count incremented.
LoopStep ==
    /\ svc_pc = "loop"
    /\ svc_todo # <<>>
    /\ IF Head(svc_todo) = "missing_key"
       THEN /\ svc_pc' = "except"
            /\ UNCHANGED <<svc_data, svc_todo, svc_count, svc_log>>
            /\ UNCHANGED busVars
       ELSE /\ ServicePublish(AnnouncementFoundEvent)
            /\ svc_count' = svc_count + 1
            /\ svc_todo' = Tail(svc_todo)
            /\ UNCHANGED <<svc_pc, svc_data>>

\* A scan() that publishes no ScanCompleted when its loop has ended.
LoopEndSilent ==
    /\ svc_pc = "loop"
    /\ svc_todo = <<>>
    /\ svc_pc' = "done"
    /\ UNCHANGED <<svc_data, svc_todo, svc_count, svc_log>>
    /\ UNCHANGED busVars

\* After the loop: ScanCompleted with the counts of the run.
LoopEnd ==
    /\ svc_pc = "loop"
    /\ svc_todo = <<>>
    /\ ServicePublish(ScanCompletedEvent(Len(Announcements(svc_data)), svc_count, TRUE))
    /\ svc_pc' = "done"
    /\ UNCHANGED <<svc_data, svc_todo, svc_count>>

\* except Exception: ScanCompleted with zero counts and success=False.
ServiceExcept ==
    /\ svc_pc = "except"
    /\ ServicePublish(ScanCompletedEvent(0, 0, FALSE))
    /\ svc_pc' = "done"
    /\ UNCHANGED <<svc_data, svc_todo, svc_count>>

ServiceNext ==
    \/ ServiceScan
    \/ ExecuteRaises
    \/ \E r \in ScanResults : ExecuteReturns(r)
    \/ LoopStep
    \/ LoopEnd
    \/ ServiceExcept
    \/ (\E w \in WorkerIds : WorkerGet(w)) /\ UNCHANGED svcVars
    \/ (\E c \in CallIds : HandlerStart(c[1], c[2])) /\ UNCHANGED svcVars
    \/ (\E c \in CallIds : HandlerReturn(c[1], c[2])) /\ UNCHANGED svcVars
    \/ (\E w \in WorkerIds : GatherDone(w)) /\ UNCHANGED svcVars

(***************************************************************************)
(* GapDetector.detect_gaps_from_bars (app/scanner/gap_detector.py) applied *)
(* to a list of bars, and PriceVolumeFilter.filter_by_price                *)
(* (app/scanner/filters.py) applied to a list of symbols and then to its   *)
(* own output.                                                             *)
(***************************************************************************)
MaxFilterCalls == 2
MaxSymbols == 3

\* The detect_gaps_from_bars call: no await in it suspends.
DetectGaps ==
    /\ gap_args # NotCalled
    /\ gap_result = NotCalled
    /\ gap_result' = DetectGapsFromBars("AAA", gap_args.bars, gap_args.gap_threshold)
    /\ UNCHANGED <<db, annVars, execVars, dateVars, orVars, trackVars, svcVars,
                   gap_args, filter_args, filter_log>>

\* Bars whose open lies inside and outside their high and low.
GapBars ==
    {Bar(d, o, h, l, c, 0) : d \in BarDays, o \in Prices, h \in 1..MaxPrice,
                             l \in 0..1, c \in Prices}
GapThresholds == {0, 50, 100}

GapInit ==
    /\ db = [s \in Symbols |-> NoData]
    /\ gap_args \in [bars : Series(GapBars, MaxBars), gap_threshold : GapThresholds]
    /\ gap_result = NotCalled
    /\ AnnIdle
    /\ ExecIdle
    /\ DateIdle
    /\ OrIdle
    /\ TrackIdle
    /\ ServiceIdle
    /\ FilterIdle

GapNext == DetectGaps

\* A filter_by_price call: the first on the given symbols, each later one
\* on what the call before it returned, with the same min_price.
FilterByPriceCall ==
    /\ filter_args # NotCalled
    /\ Len(filter_log) < MaxFilterCalls
    /\ LET symbols == IF filter_log = <<>> THEN filter_args.symbols
                      ELSE filter_log[Len(filter_log)]
       IN  filter_log' = Append(filter_log, FilterByPrice(symbols, filter_args.min_price))
    /\ UNCHANGED <<db, annVars, execVars, dateVars, orVars, trackVars, svcVars,
                   gap_args, gap_result, filter_args>>

\* A symbol without bars, one whose load fails, and one bar of any close.
FilterEntries == {LoadFails, NoData} \cup {Stored(<<Bar(50, c, c, c, c, 1)>>) : c \in Prices}
FilterSymbols == UNION {[1..n -> Symbols] : n \in 0..MaxSymbols}

FilterInit ==
    /\ db \in [Symbols -> FilterEntries]
    /\ filter_args \in [symbols : FilterSymbols, min_price : {1, 2}]
    /\ filter_log = <<>>
    /\ AnnIdle
    /\ ExecIdle
    /\ DateIdle
    /\ OrIdle
    /\ TrackIdle
    /\ ServiceIdle
    /\ GapIdle

FilterNext == FilterByPriceCall

ScanNext ==
    \/ \E c \in Callers : StartScanCall(c)
    \/ \E c \in Callers : LockAcquired(c)
    \/ \E c \in Callers, n \in 0..MaxCandidates : ScanSucceeds(c, n)
    \/ \E c \in Callers : ScanFails(c)
    \/ Tick

Init == ScanInit /\ BusInit /\ SchedInit /\ DataInit

\* Concurrent start_scan calls on one GapScanner.
SpecScan == Init /\ [][ScanNext /\ UNCHANGED <<busVars, maxsize, schedVars, dataVars>>]_vars

\* The event loop resumes the call that was handed the lock, and a scan that
\* was started ends: _execute_scan returns or raises.
ScanFairness ==
    /\ WF_vars((\E c \in Callers : LockAcquired(c)) /\ UNCHANGED <<busVars, maxsize, schedVars, dataVars>>)
    /\ WF_vars((\E c \in Callers : (\E n \in 0..MaxCandidates : ScanSucceeds(c, n))
                                     \/ ScanFails(c)) /\ UNCHANGED <<busVars, maxsize, schedVars, dataVars>>)

FairScan == SpecScan /\ ScanFairness

\* One EventBus with producers, subscribers, start() and stop().
SpecBus == Init /\ [][BusNext /\ UNCHANGED <<scanVars, maxsize, schedVars, dataVars>>]_vars

\* The event loop runs every task that is ready: a woken producer, the
\* dispatch loop, a stop() whose awaited task ended, a handler task that is
\* due to start. Handlers are taken to end (they return or raise).
BusFairness ==
    /\ WF_vars(PublishResume /\ UNCHANGED <<scanVars, maxsize, schedVars, dataVars>>)
    /\ WF_vars((\E w \in WorkerIds : WorkerCancelled(w)) /\ UNCHANGED <<scanVars, maxsize, schedVars, dataVars>>)
    /\ WF_vars((\E w \in WorkerIds : StopReturn(w)) /\ UNCHANGED <<scanVars, maxsize, schedVars, dataVars>>)
    /\ WF_vars((\E w \in WorkerIds : WorkerGet(w)) /\ UNCHANGED <<scanVars, maxsize, schedVars, dataVars>>)
    /\ WF_vars((\E w \in WorkerIds : GatherDone(w)) /\ UNCHANGED <<scanVars, maxsize, schedVars, dataVars>>)
    /\ WF_vars((\E c \in CallIds : HandlerStart(c[1], c[2])) /\ UNCHANGED <<scanVars, maxsize, schedVars, dataVars>>)
    /\ WF_vars((\E c \in CallIds : HandlerReturn(c[1], c[2]) \/ HandlerRaise(c[1], c[2]))
               /\ UNCHANGED <<scanVars, maxsize, schedVars, dataVars>>)

FairBus == SpecBus /\ BusFairness

\* The event loop runs the tasks that are ready, but a handler that is
\* suspended may stay suspended for ever.
DispatchFairness ==
    /\ WF_vars((\E w \in WorkerIds : WorkerGet(w)) /\ UNCHANGED <<scanVars, maxsize, schedVars, dataVars>>)
    /\ WF_vars((\E c \in CallIds : HandlerStart(c[1], c[2])) /\ UNCHANGED <<scanVars, maxsize, schedVars, dataVars>>)

FairDispatch == SpecBus /\ DispatchFairness

\* One EventBus that is stopped and started again.
SpecLife == Init /\ [][LifeNext /\ UNCHANGED <<scanVars, maxsize, schedVars, dataVars>>]_vars

\* The scan event flow of one producer and one handler of every type.
InitFlow == ScanInit /\ FlowInit /\ SchedInit /\ DataInit

SpecFlow == InitFlow /\ [][FlowNext /\ UNCHANGED <<scanVars, maxsize, schedVars, dataVars>>]_vars

\* The running bot: bus started, handlers registered, jobs firing.
InitBot == ScanInit /\ BotInit /\ SchedInit /\ DataInit

\* The callbacks of the bot's handlers on the events they subscribe to.
SpecHandlers == InitBot /\ [][HandlersNext /\ UNCHANGED <<scanVars, maxsize, schedVars, dataVars>>]_vars

\* The scheduler of the bot, started and stopped, with its jobs firing.
SpecSched == InitBot /\ [][SchedNext]_vars

InitAnn == ScanInit /\ BusInit /\ SchedInit /\ AnnInit

SpecAnn == InitAnn /\ [][AnnNext /\ UNCHANGED <<scanVars, busVars, maxsize, schedVars>>]_vars

InitExec == ScanInit /\ BusInit /\ SchedInit /\ ExecInit

SpecExec == InitExec /\ [][ExecNext /\ UNCHANGED <<scanVars, busVars, maxsize, schedVars>>]_vars

InitQuery == ScanInit /\ BusInit /\ SchedInit /\ QueryInit

SpecQuery == InitQuery /\ [][QueryNext /\ UNCHANGED <<busVars, maxsize, schedVars>>]_vars

InitOr == ScanInit /\ BusInit /\ SchedInit /\ OrInit

SpecOr == InitOr /\ [][OrNext /\ UNCHANGED <<scanVars, busVars, maxsize, schedVars>>]_vars

\* The announcement tracker under registrations and checks.
SpecTrack == Init /\ [][TrackNext /\ UNCHANGED <<busVars, maxsize, schedVars>>]_vars

\* detect_gaps_from_bars applied to any list of bars.
InitGaps == ScanInit /\ BusInit /\ SchedInit /\ GapInit

SpecGaps == InitGaps /\ [][GapNext /\ UNCHANGED <<scanVars, busVars, maxsize, schedVars>>]_vars

\* filter_by_price applied to a list of symbols and to its own output.
InitFilter == ScanInit /\ BusInit /\ SchedInit /\ FilterInit

SpecFilter == InitFilter /\ [][FilterNext /\ UNCHANGED <<scanVars, busVars, maxsize, schedVars>>]_vars

\* One run of ScannerService.scan() on the bus of the scan event flow.
SpecService ==
    InitFlow /\ [][ServiceNext /\ UNCHANGED <<scanVars, maxsize, schedVars, db, annVars,
                                              execVars, dateVars, orVars, trackVars,
                                              fnVars>>]_vars

\* The restarted bus with the event loop running every task that is ready.
FairLife == SpecLife /\ BusFairness

SpecBot == InitBot /\ [][BotNext /\ UNCHANGED <<scanVars, maxsize, schedVars, dataVars>>]_vars

\* The event loop runs every task that is ready: a publish whose queue has
\* room, the dispatch loop, a handler that gather() created, a handler whose
\* download or import has ended. Triggers and stop() come from outside and
\* need not happen.
BotFairness ==
    /\ WF_vars(PublishResume /\ UNCHANGED <<scanVars, maxsize, schedVars, dataVars>>)
    /\ WF_vars((\E w \in WorkerIds : WorkerCancelled(w)) /\ UNCHANGED <<scanVars, maxsize, schedVars, dataVars>>)
    /\ WF_vars((\E w \in WorkerIds : StopReturn(w)) /\ UNCHANGED <<scanVars, maxsize, schedVars, dataVars>>)
    /\ WF_vars((\E w \in WorkerIds : WorkerGet(w)) /\ UNCHANGED <<scanVars, maxsize, schedVars, dataVars>>)
    /\ WF_vars((\E w \in WorkerIds : GatherDone(w)) /\ UNCHANGED <<scanVars, maxsize, schedVars, dataVars>>)
    /\ WF_vars((\E c \in CallIds : HandlerStart(c[1], c[2])) /\ UNCHANGED <<scanVars, maxsize, schedVars, dataVars>>)
    /\ WF_vars((\E c \in CallIds, o \in {"file", "nofile", "counts", "raise"} :
                    ImportWork(c[1], c[2], o))
               /\ UNCHANGED <<scanVars, maxsize, schedVars, dataVars>>)

FairBot == SpecBot /\ BotFairness

(***************************************************************************)
(* C1: under any interleaving of concurrent start_scan calls on one        *)
(* GapScanner, at most one call is inside _execute_scan at any time.       *)
(***************************************************************************)
C1_SingleFlight ==
    Cardinality({c \in Callers : spc[c] = "scanning"}) <= 1

\* One call is executing its scan while another call has been issued.
C1_Witness ==
    \E c, d \in Callers : c # d /\ spc[c] = "scanning" /\ spc[d] = "waiting"

(***************************************************************************)
(* C2: a start_scan issued while another start_scan is executing its scan  *)
(* returns at once with success=false and "Scan already in progress", and  *)
(* never executes a scan of its own.                                       *)
(***************************************************************************)
C2_RejectedImmediately ==
    \A c \in contended :
        /\ spc[c] = "returned"
        /\ response[c] = AlreadyInProgress
        /\ c \notin executed

(***************************************************************************)
(* C3: when one handler of an event raises, the other handlers subscribed  *)
(* to the event's type are not cancelled by it: unless stop() cancelled    *)
(* the dispatch, no sibling call is cancelled, and once the dispatch of    *)
(* the event is over every subscribed handler was invoked and has ended.   *)
(***************************************************************************)
\* Events whose dispatch a stop() cancelled.
Aborted == {workers[w].ev : w \in {x \in WorkerIds : workers[x].st \in {"cancelling", "done"}}}

Invocations(e, h) == Cardinality({i \in 1..Len(inv_log) : inv_log[i] = <<e, h>>})

C3_ErrorIsolation ==
    \A e \in 1..Len(calls) :
        (first_failed # 0 /\ e \notin Aborted) =>
            /\ \A k \in 1..Len(calls[e]) : calls[e][k].st # "cancelled"
            /\ (\A k \in 1..Len(calls[e]) : calls[e][k].st # "pending" /\ calls[e][k].st # "running")
                   => \A k \in 1..Len(calls[e]) :
                          /\ calls[e][k].st \in {"returned", "raised"}
                          /\ Invocations(e, calls[e][k].h) >= 1

\* One handler of an event raised and a sibling handler returned.
C3_Witness ==
    \E e \in 1..Len(calls) : \E k1, k2 \in 1..Len(calls[e]) :
        calls[e][k1].st = "raised" /\ calls[e][k2].st = "returned"

(***************************************************************************)
(* C4: a handler exception never ends the dispatch loop: a loop task ends  *)
(* only because stop() cancelled it, and an event queued on a running bus  *)
(* after some handler has raised is still dispatched (unless the bus is    *)
(* stopped).                                                               *)
(***************************************************************************)
LoopEndsOnlyByStop ==
    \A w \in WorkerIds :
        workers[w].st \in {"cancelling", "done"} => (w \in stopping \/ stop_log[w].returned)

C4_LoopSurvivesHandlerFailure ==
    /\ [](first_failed # 0 => LoopEndsOnlyByStop)
    /\ \A i \in 1..MaxEvents :
          (first_failed # 0 /\ i \in Range(queue) /\ bus_running)
              ~> (i \in completed \/ ~bus_running)

\* An event published after the first handler failure has been dispatched to
\* a handler that ran to its end.
C4_Witness ==
    /\ first_failed # 0
    /\ \E i \in completed : i > first_failed /\ \E h \in Range(TestHandlers) : <<i, h>> \in finished

(***************************************************************************)
(* C5 (as claimed): a producer is never kept waiting in publish() behind a *)
(* handler that has not returned.                                          *)
(***************************************************************************)
HandlerRunning ==
    \E e \in 1..Len(calls) : \E k \in 1..Len(calls[e]) : calls[e][k].st = "running"

SubscribedTo(i) == Range(subscribers[published[i].type])

DeliveredOnce(i) ==
    /\ i \in completed
    /\ \A h \in SubscribedTo(i) : Invocations(i, h) = 1

C7_ExactlyOnce ==
    /\ [](\A i \in 1..Len(published) : \A h \in Range(TestHandlers) : Invocations(i, h) <= 1)
    /\ \A i \in 1..MaxEvents :
          (i \in Range(queue) /\ bus_running) ~> (DeliveredOnce(i) \/ ~bus_running)

\* An event was delivered to two subscribers, one of which raised.
C7_Witness ==
    \E i \in completed :
        /\ Cardinality(SubscribedTo(i)) = 2
        /\ DeliveredOnce(i)
        /\ first_failed = i

(***************************************************************************)
(* C8: when stop() returns, the dispatch loop has ended and every handler  *)
(* invocation that was in flight when stop() was called has run to         *)
(* completion.                                                             *)
(***************************************************************************)
C8_StopDrainsHandlers ==
    \A w \in WorkerIds :
        stop_log[w].returned =>
            /\ workers[w].st = "done"
            /\ stop_log[w].inflight \subseteq finished

(***************************************************************************)
(* C9: with the handlers the bot registers, every ScanStarted event that   *)
(* the bus has dispatched was handed to a handler, which runs the scan.    *)
(***************************************************************************)
C9_ScanStartedHandled ==
    \A i \in 1..Len(published) :
        (published[i].type = "ScanStartedEvent" /\ i \in completed)
            => \E h \in Range(subscribers["ScanStartedEvent"]) : <<i, h>> \in finished

(***************************************************************************)
(* C10: for every DownloadStarted or ImportStarted event the import        *)
(* handler has handled to its return, exactly one DownloadCompleted or     *)
(* ImportCompleted event respectively has been published, with the source  *)
(* and correlation id of the triggering event, with status "error" and no  *)
(* result when the work raised, and a non-error status otherwise; no       *)
(* second completion event is ever published for it.                       *)
(***************************************************************************)
DerivedFrom(e) == {j \in 1..Len(published) : published[j].cause = e}

ExpectedCompletionType(e) ==
    IF published[e].type = "DownloadStartedEvent" THEN "DownloadCompletedEvent"
    ELSE "ImportCompletedEvent"

C10_OneCompletionPerTrigger ==
    \A e \in 1..Len(published) :
        published[e].type \in {"DownloadStartedEvent", "ImportStartedEvent"} =>
            /\ Cardinality(DerivedFrom(e)) <= 1
            /\ \A j \in DerivedFrom(e) :
                   /\ published[j].type = ExpectedCompletionType(e)
                   /\ published[j].source = published[e].source
                   /\ published[j].correlation_id = published[e].correlation_id
            /\ (\E h \in ImportHandlers : <<e, h>> \in finished)
                   => Cardinality(DerivedFrom(e)) = 1
            /\ \A k \in 1..Len(calls[e]) :
                   calls[e][k].st = "returned" =>
                       \A j \in DerivedFrom(e) :
                           /\ (calls[e][k].res = "raise") <=> (published[j].status = "error")
                           /\ (calls[e][k].res = "raise") => published[j].payload = "none"
                           /\ published[j].status \in {"success", "skipped", "error"}

\* A download that raised was answered by an error completion, and an import
\* that succeeded by a success completion.
C10_Witness ==
    /\ \E e \in 1..Len(published) : \E k \in 1..Len(calls[e]) :
          /\ published[e].type = "ImportStartedEvent"
          /\ calls[e][k].st = "returned"
          /\ calls[e][k].res = "counts"
          /\ \E j \in DerivedFrom(e) : published[j].status = "success"
    /\ \E e \in 1..Len(published) :
          /\ published[e].type = "DownloadStartedEvent"
          /\ <<e, "ImportHandler.on_download_started">> \in finished
          /\ \E j \in DerivedFrom(e) : published[j].status = "error"

(***************************************************************************)
(* C11: every start_scan that entered the running state eventually returns *)
(* with status.running false and the scan lock released, whether the scan  *)
(* succeeded or raised; a scan that raised is answered by a success=false  *)
(* response and nothing else leaves the call; and a call that waited for   *)
(* the lock then runs its scan.                                            *)
(***************************************************************************)
ScanResponses == {ScanCompletedResponse(n) : n \in 0..MaxCandidates} \cup {ScanFailedResponse}

C11_ScanAlwaysReturns ==
    /\ \A c \in Callers :
          spc[c] = "scanning" ~> (spc[c] = "returned" /\ ~status.running /\ scan_lock = 0)
    /\ [][\A c \in Callers :
             (spc[c] = "scanning" /\ spc'[c] # "scanning") =>
                 /\ spc'[c] = "returned"
                 /\ response'[c] \in ScanResponses
                 /\ ~status'.running
                 /\ scan_lock' = 0]_vars
    /\ \A c \in Callers : spc[c] = "waiting" ~> spc[c] = "scanning"

\* A scan failed and was answered by the failure response, and a later call
\* is running its scan.
C11_Witness ==
    \E c, d \in Callers :
        /\ c # d
        /\ spc[c] = "returned"
        /\ response[c] = ScanFailedResponse
        /\ d \in contended
        /\ spc[d] = "scanning"

(***************************************************************************)
(* C12: a start_scan that starts a scan sets status.last_scan_time to the  *)
(* current time at entry and leaves last_scan_results alone; a scan that   *)
(* completes successfully sets last_scan_results to the number of returned *)
(* candidates; a scan that fails, and a call rejected as already in        *)
(* progress, change neither field; nothing else changes the two fields.    *)
(***************************************************************************)
C12_StatusFields ==
    [][/\ \A c \in Callers :
            /\ (spc[c] # "scanning" /\ spc'[c] = "scanning") =>
                   /\ status'.last_scan_time = now
                   /\ status'.last_scan_results = status.last_scan_results
            /\ (spc[c] = "scanning" /\ spc'[c] = "returned" /\ response'[c].success) =>
                   /\ status'.last_scan_results = response'[c].candidates_count
                   /\ status'.last_scan_time = status.last_scan_time
            /\ (spc[c] = "scanning" /\ spc'[c] = "returned" /\ ~response'[c].success) =>
                   /\ status'.last_scan_results = status.last_scan_results
                   /\ status'.last_scan_time = status.last_scan_time
            /\ (spc[c] # "returned" /\ response'[c] = AlreadyInProgress) =>
                   /\ status'.last_scan_results = status.last_scan_results
                   /\ status'.last_scan_time = status.last_scan_time
       /\ status'.last_scan_time # status.last_scan_time =>
              \E c \in Callers : spc[c] # "scanning" /\ spc'[c] = "scanning"
       /\ status'.last_scan_results # status.last_scan_results =>
              \E c \in Callers : spc[c] = "scanning" /\ response'[c].success]_vars

\* A scan that found a candidate was followed by a later scan that started
\* at a later time and failed, and the count of the first is still recorded.
C12_Witness ==
    \E c, d \in Callers :
        /\ response[c] = ScanCompletedResponse(1)
        /\ d \in contended
        /\ response[d] = ScanFailedResponse
        /\ status.last_scan_results = 1
        /\ status.last_scan_time = 2

(***************************************************************************)
(* C13 (as claimed): publishing an event whose type has no subscriber      *)
(* never blocks the publisher.                                             *)
(***************************************************************************)
NoSubscriber(ev) == subscribers[ev.type] = <<>>

SubscribedTypes(h) == {T \in EventTypes : h \in Range(subscribers[T])}

C14_ExactTypeDispatch ==
    /\ \A n \in 1..Len(inv_log) :
          SubscribedTypes(inv_log[n][2]) = {published[inv_log[n][1]].type}
    /\ \A e \in 1..Len(calls) : \A k \in 1..Len(calls[e]) :
          SubscribedTypes(calls[e][k].h) = {published[e].type}
    /\ \A e \in completed :
          \A h \in Range(subscribers[published[e].type]) : Invocations(e, h) = 1

\* With one handler on the base class AppEvent and one on ScanStartedEvent,
\* a ScanStarted event and an AnnouncementFound event have been dispatched.
C14_Witness ==
    /\ subscribers["AppEvent"] # <<>>
    /\ subscribers["ScanStartedEvent"] # <<>>
    /\ \E i, j \in completed :
          /\ published[i].type = "ScanStartedEvent"
          /\ published[j].type = "AnnouncementFoundEvent"
          /\ IsInstance(published[i].type, "AppEvent")

(***************************************************************************)
(* C15: the handlers of one event run concurrently: every handler task of  *)
(* a fan-out is started even if a sibling that started before it stays     *)
(* suspended for ever (unless stop() cancels the fan-out first), and a     *)
(* handler that is running can return whatever state its siblings are in.  *)
(***************************************************************************)
IsCall(e, k) == e <= Len(calls) /\ k <= Len(calls[e])

C15_ConcurrentFanOut ==
    /\ \A e \in 1..MaxEvents : \A k \in 1..MaxSubs :
          (IsCall(e, k) /\ calls[e][k].st = "pending")
              ~> (e \in Aborted \/ (IsCall(e, k) /\ calls[e][k].st # "pending"))
    /\ [](\A e \in 1..MaxEvents : \A k \in 1..MaxSubs :
             (IsCall(e, k) /\ calls[e][k].st = "running") => ENABLED HandlerReturn(e, k))

\* The second handler of an event has returned while the first, started
\* before it, is still suspended.
C15_Witness ==
    \E e \in 1..Len(calls) :
        /\ Len(calls[e]) = 2
        /\ calls[e][1].st = "running"
        /\ calls[e][2].st = "returned"

(***************************************************************************)
(* C16: the events one producer publishes one after another reach a        *)
(* handler subscribed to all of their types in the order of publication,   *)
(* whatever their concrete types: the n-th invocation of the handler is    *)
(* for the n-th event published.                                           *)
(***************************************************************************)
C16_PublicationOrderAcrossTypes ==
    /\ \A n \in 1..Len(inv_log) : inv_log[n] = <<n, "capture">>
    /\ \A i, j \in 1..Len(inv_log) : i < j => inv_log[i][1] < inv_log[j][1]

\* ScanStarted, AnnouncementFound and ScanCompleted were published in this
\* order and have all been delivered.
C16_Witness ==
    /\ Len(published) = 3
    /\ published[1].type = "ScanStartedEvent"
    /\ published[2].type = "AnnouncementFoundEvent"
    /\ published[3].type = "ScanCompletedEvent"
    /\ inv_log = <<(<<1, "capture">>), (<<2, "capture">>), (<<3, "capture">>)>>
    /\ completed = {1, 2, 3}

(***************************************************************************)
(* C17: at any time at most one dispatch loop task of the bus is alive     *)
(* (created and not yet ended), also when start() is called while a stop() *)
(* is still awaiting the loop task it cancelled.                           *)
(***************************************************************************)
Alive(w) == workers[w].st \in {"getting", "dispatching", "cancelling"}

C17_OneLoopTask == Cardinality({w \in WorkerIds : Alive(w)}) <= 1

(***************************************************************************)
(* C18: whatever the sequence of start() and stop() calls on the           *)
(* scheduler, the calls made on the cron scheduler alternate between       *)
(* start and shutdown, beginning with start (it is never started twice in  *)
(* a row, never shut down when not started); a start() while running and a *)
(* stop() while stopped change nothing; and is_running() is true exactly   *)
(* when the cron scheduler is started.                                     *)
(***************************************************************************)
C18_SchedulerStartStop ==
    /\ [](/\ \A i \in 1..Len(cron_calls) :
                 cron_calls[i] = IF i % 2 = 1 THEN "start" ELSE "shutdown"
          /\ cron_started <=> (Len(cron_calls) % 2 = 1)
          /\ IsRunning <=> cron_started)
    /\ [][sched_calls' # sched_calls =>
             IF cron_calls' = cron_calls
             THEN UNCHANGED <<sched_running, cron_started, job_log, scanVars, busVars, maxsize>>
             ELSE /\ Len(cron_calls') = Len(cron_calls) + 1
                  /\ sched_running' # sched_running]_vars

\* Three calls were made, one of them changed nothing, and the scheduler was
\* started, fired a job and was shut down.
C18_Witness ==
    /\ sched_calls = 3
    /\ cron_calls = <<"start", "shutdown">>
    /\ job_log # <<>>
    /\ ~IsRunning

(***************************************************************************)
(* C19: each firing of a scheduler job publishes exactly one event, of the *)
(* type of the job (ScanStarted for the scan job, DownloadStarted for the  *)
(* download job, ImportStarted for the import job), with source            *)
(* "scheduled" and a correlation id no other job uses, and changes nothing *)
(* else.                                                                   *)
(***************************************************************************)
JobEventType(j) ==
    CASE j = "scan_trigger" -> "ScanStartedEvent"
      [] j = "download_trigger" -> "DownloadStartedEvent"
      [] j = "import_trigger" -> "ImportStartedEvent"

\* The events handed to publish() by the jobs, put on the queue or waiting.
JobEvents == {published[i] : i \in {n \in 1..Len(published) : published[n].cause = 0}}
                 \cup Range(putters)

C19_JobFiringPublishesOneEvent ==
    /\ [](/\ Produced = Len(job_log)
          /\ \A e1, e2 \in JobEvents :
                 (e1.type = e2.type) <=> (e1.correlation_id = e2.correlation_id))
    /\ [][Len(job_log') > Len(job_log) =>
             LET j  == job_log'[Len(job_log')]
                 ok(ev) == /\ ev.type = JobEventType(j)
                           /\ ev.source = "scheduled"
                           /\ ev.cause = 0
             IN  /\ Len(job_log') = Len(job_log) + 1
                 /\ \/ /\ Len(published') = Len(published) + 1
                       /\ SubSeq(published', 1, Len(published)) = published
                       /\ ok(published'[Len(published')])
                       /\ queue' = Append(queue, Len(published'))
                       /\ calls' = Append(calls, <<>>)
                       /\ putters' = putters
                    \/ /\ Len(putters') = Len(putters) + 1
                       /\ SubSeq(putters', 1, Len(putters)) = putters
                       /\ ok(putters'[Len(putters')])
                       /\ UNCHANGED <<published, queue, calls>>
                 /\ UNCHANGED <<subscribers, bus_running, worker_task, workers, stopping,
                                inv_log, completed, stop_log, finished, first_failed>>
                 /\ UNCHANGED <<scanVars, maxsize, sched_running, cron_started,
                                cron_calls, sched_calls>>]_vars

\* Each of the three jobs has fired once and its event is on the bus or
\* waiting to be put on it.
C19_Witness ==
    /\ Len(job_log) = 3
    /\ Range(job_log) = Jobs
    /\ {ev.type : ev \in JobEvents} = {JobEventType(j) : j \in Jobs}

(***************************************************************************)
(* C20: no callback of the Discord, strategy or import handler ends with   *)
(* an exception: when the webhook, the strategy trigger, the downloader or *)
(* the importer raises, the callback still returns.                        *)
(***************************************************************************)
BotHandlers == NotifyHandlers \cup ImportHandlers

C20_CallbacksNeverRaise ==
    \A e \in 1..Len(calls) : \A k \in 1..Len(calls[e]) :
        calls[e][k].h \in BotHandlers =>
            /\ calls[e][k].st # "raised"
            /\ (<<e, calls[e][k].h>> \in finished) => calls[e][k].st = "returned"
            /\ first_failed = 0

\* The webhook raised in the Discord callback while the strategy callback of
\* the same event went through, and both callbacks returned.
C20_Witness ==
    /\ \E e \in 1..Len(calls) : \E k1, k2 \in 1..Len(calls[e]) :
          /\ calls[e][k1].h = "DiscordHandler.on_announcement"
          /\ calls[e][k1].res = "raise"
          /\ calls[e][k1].st = "returned"
          /\ calls[e][k2].h = "StrategyHandler.on_announcement"
          /\ calls[e][k2].res = "ok"
          /\ calls[e][k2].st = "returned"
    /\ \E e \in 1..Len(published) :
          /\ <<e, "ImportHandler.on_import_started">> \in finished
          /\ \E j \in DerivedFrom(e) : published[j].status = "error"

(***************************************************************************)
(* Announcement gap scanner                                                *)
(***************************************************************************)
\* The symbols of the candidates a scan_candidates call returned.
Emitted == {ann_result.candidates[i].symbol : i \in 1..Len(ann_result.candidates)}

\* The symbols of the batch.
InBatch == {ann_args.announcement_symbols[i].symbol :
                i \in 1..Len(ann_args.announcement_symbols)}

\* The four conditions on the stored bars of a symbol.
HasTwoBars(s) == ~db[s].fails /\ Len(db[s].bars) >= 2
LatestBar(s) == db[s].bars[Len(db[s].bars)]
PreviousBar(s) == db[s].bars[Len(db[s].bars) - 1]
PriceOk(s) == LatestBar(s).close >= ann_args.min_price
GapOk(s) ==
    /\ PreviousBar(s).close > 0
    /\ (LatestBar(s).open - PreviousBar(s).close) * 100
           >= ann_args.min_gap_pct * PreviousBar(s).close
NMonthHigh(s) == CalculateSixMonthHigh(db[s].bars, ann_args.lookback_months)
AboveHigh(s) == LatestBar(s).close > NMonthHigh(s)

\* C21: scan_candidates emits a candidate for a symbol of the batch exactly
\* when the symbol has at least two bars, its latest close is at least
\* min_price, its gap percent is at least min_gap_pct and its latest close
\* is strictly greater than the N-month high; a close equal to the N-month
\* high is rejected, and so is a close below min_price whatever the gap and
\* the high are.
C21_EmittedExactlyWhenAllConditionsHold ==
    ann_result # NotCalled =>
        /\ ann_result.kind = "returned"
        /\ \A s \in Symbols :
              /\ s \in Emitted <=>
                    /\ s \in InBatch
                    /\ HasTwoBars(s)
                    /\ PriceOk(s)
                    /\ GapOk(s)
                    /\ AboveHigh(s)
              /\ HasTwoBars(s) /\ LatestBar(s).close = NMonthHigh(s) => s \notin Emitted
              /\ HasTwoBars(s) /\ ~PriceOk(s) => s \notin Emitted

\* One symbol is emitted, and another is rejected only because its close
\* equals the N-month high.
C21_Witness ==
    /\ ann_result # NotCalled
    /\ \E s, t \in InBatch :
          /\ s \in Emitted
          /\ t \notin Emitted
          /\ HasTwoBars(t) /\ PriceOk(t) /\ GapOk(t)
          /\ LatestBar(t).close = NMonthHigh(t)

\* The symbols whose evaluation raises: the division by a zero previous
\* close is reached. (A failing load reaches the scanner as an empty list.)
EvaluationRaises(s) == HasTwoBars(s) /\ PriceOk(s) /\ PreviousBar(s).close = 0

Failing(s) == db[s].fails \/ EvaluationRaises(s)

\* The batch without the items of the failing symbols.
WithoutFailing ==
    SelectSeq(ann_args.announcement_symbols, LAMBDA item : ~Failing(item.symbol))

\* C22: when the evaluation of a symbol of the batch raises or its bar load
\* fails, scan_candidates still returns, the symbol is not among the
\* candidates, and the candidates are those of the batch without the
\* failing symbols.
C22_FailingSymbolDoesNotAbortBatch ==
    ann_result # NotCalled =>
        /\ ann_result.kind = "returned"
        /\ \A s \in Symbols : Failing(s) => s \notin Emitted
        /\ ann_result.candidates =
              ScanLoop(WithoutFailing, ann_args,
                       LoopState(<<>>, [s \in Symbols |-> 0], FALSE)).candidates

\* The first symbol of the batch raised, and the second was emitted.
C22_Witness ==
    /\ ann_result # NotCalled
    /\ Len(ann_args.announcement_symbols) = 2
    /\ EvaluationRaises(ann_args.announcement_symbols[1].symbol)
    /\ ann_args.announcement_symbols[2].symbol \in Emitted

\* C27: for the time-ordered bars the database returns, the N-month high
\* the scanner computes is at least the high of the latest bar, so a symbol
\* whose latest bar has close <= high is never emitted.
C27_HighCoversLatestBar ==
    ann_result # NotCalled =>
        \A s \in Symbols :
            /\ HasTwoBars(s) => NMonthHigh(s) >= LatestBar(s).high
            /\ HasTwoBars(s) /\ LatestBar(s).close <= LatestBar(s).high => s \notin Emitted

\* A symbol all of whose bars are older than the lookback window (the
\* fallback bar is the latest one), with close equal to high and every other
\* condition met, was evaluated and not emitted.
C27_Witness ==
    /\ ann_result # NotCalled
    /\ \E s \in InBatch :
          /\ HasTwoBars(s) /\ PriceOk(s) /\ GapOk(s)
          /\ \A i \in 1..Len(db[s].bars) :
                db[s].bars[i].dt < Today - ann_args.lookback_months * DaysPerMonth
          /\ LatestBar(s).close = LatestBar(s).high
          /\ PreviousBar(s).high < LatestBar(s).high
          /\ s \notin Emitted

(***************************************************************************)
(* General gap scanner                                                     *)
(***************************************************************************)
\* The symbols of the overview whose bar load does not fail.
LoadableOverview == SelectSeq(Overview, LAMBDA s : ~db[s].fails)

\* The symbols of the candidates _execute_scan returned.
ScanSymbols == {exec_result.value[k].symbol : k \in 1..Len(exec_result.value)}

\* C23: a symbol whose bar load fails is skipped by _execute_scan: the scan
\* ends as it does over the remaining symbols alone, with their candidates.
C23_FailedLoadIsSkipped ==
    exec_result # NotCalled =>
        /\ exec_result = ExecuteScanOver(LoadableOverview, scan_request)
        /\ \A s \in Symbols : db[s].fails => s \notin ScanSymbols
        /\ (\A s \in Symbols : db[s].fails \/ db[s].bars = <<>>) => ~exec_result.raised

\* The load of one symbol failed and the scan returned the candidate of the
\* other.
C23_Witness ==
    /\ exec_result # NotCalled
    /\ \E s \in Symbols : db[s].fails
    /\ ~exec_result.raised
    /\ exec_result.value # <<>>

\* The index of the bar of a symbol dated d.
BarAt(s, d) == CHOOSE i \in 1..Len(db[s].bars) : db[s].bars[i].dt = d

\* C28: every candidate _execute_scan returns carries the previous close
\* and the gap percent of its own bar pair (the open of the bar it is
\* stamped with against the close of the bar before), so the absolute value
\* of its gap percent reaches the request's gap_threshold.
C28_CandidateCarriesOwnPair ==
    exec_result # NotCalled /\ ~exec_result.raised =>
        \A k \in 1..Len(exec_result.value) :
            LET c == exec_result.value[k]
                bars == db[c.symbol].bars
                i == BarAt(c.symbol, c.timestamp)
            IN  /\ c.previous_close = bars[i - 1].close
                /\ c.gap_percent = GapPct(bars[i].open, bars[i - 1].close)
                /\ FracAbsGe(c.gap_percent, scan_request.gap_threshold)

\* The bar pairs of a symbol that qualify with the open below the previous
\* close.
DownGaps(s) ==
    {i \in 2..Len(db[s].bars) :
        /\ db[s].bars[i].open < db[s].bars[i - 1].close
        /\ FracAbsGe(GapPct(db[s].bars[i].open, db[s].bars[i - 1].close),
                     scan_request.gap_threshold)}

\* No division by a zero previous close occurs in the scan.
PositiveCloses ==
    \A s \in Symbols : \A i \in 1..Len(db[s].bars) : db[s].bars[i].close > 0

\* C29: the gap percent of a candidate is signed and its direction is the
\* sign of the gap percent, "down" with a negative gap percent for an open
\* below the previous close; a qualifying down gap does not make the scan
\* fail.
C29_DownGapYieldsCandidate ==
    exec_result # NotCalled /\ PositiveCloses =>
        /\ (\E s \in Symbols : ~db[s].fails /\ DownGaps(s) # {}) => ~exec_result.raised
        /\ \A k \in 1..Len(exec_result.value) :
              LET c == exec_result.value[k]
              IN  c.gap_direction = (IF c.open_price < c.previous_close
                                     THEN "down" ELSE "up")

\* C24: get_candidates_for_date can run whatever the scanner is doing, a
\* scan in progress included, and leaves the scan lock and the scan status
\* (running, last_scan_time, last_scan_results) as they were; what it
\* returns depends on the bars and the date alone.
C24_DateQueryLeavesScanStateAlone ==
    /\ [](Len(date_log) < MaxDateCalls =>
              ENABLED (\E d \in BarDays : GetCandidatesForDate(d)))
    /\ [][date_log' # date_log =>
              /\ UNCHANGED <<status, scan_lock, lock_waiters>>
              /\ date_result' =
                    CandidatesForDateOver(Overview, date_log'[Len(date_log')].date)]_vars

\* A date query returned candidates while a scan was in progress, and the
\* scan is still in progress.
C24_Witness ==
    /\ date_log # <<>>
    /\ date_log[Len(date_log)].running
    /\ status.running
    /\ scan_lock # 0
    /\ ~date_result.raised
    /\ date_result.value # <<>>

(***************************************************************************)
(* Opening range tracker                                                   *)
(***************************************************************************)
\* The symbols the last sample_opening_range call computed an entry for:
\* those of its list whose load succeeded with at least one bar.
Sampled ==
    {s \in Symbols :
        /\ \E k \in 1..Len(or_call.symbols) : or_call.symbols[k] = s
        /\ ~or_call.bars[s].fails
        /\ or_call.bars[s].bars # <<>>}

\* C25: after a sample_opening_range call the cache holds exactly the
\* entries that call computed: a symbol absent from the call, or failing in
\* it, has no entry whatever an earlier call cached for it, a symbol sampled
\* again has the entry of the latest call, and get_opening_range returns the
\* cached entry and never changes the cache.
C25_CacheIsLatestSample ==
    /\ [](or_call # NotCalled =>
              /\ or_cache = or_call.result
              /\ \A s \in Symbols :
                    or_cache[s] = IF s \in Sampled
                                  THEN CalculateOrFromBars(s, or_call.bars[s].bars,
                                                           or_call.sample_time)
                                  ELSE NoRange)
    /\ [][or_got' # or_got =>
              /\ or_cache' = or_cache
              /\ or_got'.value = or_cache[or_got'.symbol]]_vars

\* get_opening_range returned the entry an earlier call cached for a symbol;
\* in the latest call the load of that symbol failed and the symbol has no
\* entry now, while another symbol of the call has one.
C25_Witness ==
    /\ or_call # NotCalled
    /\ or_got # NotCalled
    /\ or_got.value # NoRange
    /\ \E k \in 1..Len(or_call.symbols) : or_call.symbols[k] = or_got.symbol
    /\ or_call.bars[or_got.symbol].fails
    /\ or_cache[or_got.symbol] = NoRange
    /\ \E s \in Sampled : or_cache[s] # NoRange

(***************************************************************************)
(* Handlers that publish                                                   *)
(***************************************************************************)
\* A handler is suspended in the publish() of its completion event.
HandlerInPublish ==
    \E e \in 1..Len(calls) : \E k \in 1..Len(calls[e]) : calls[e][k].st = "publishing"

\* A download or import handler has been invoked and has not ended.
ImportHandlerActive ==
    \E e \in 1..Len(calls) : \E k \in 1..Len(calls[e]) :
        /\ calls[e][k].h \in ImportHandlers
        /\ calls[e][k].st \in {"running", "publishing"}

\* C26: a handler that publishes a derived event from inside its callback
\* always completes: once invoked it ends, and it is never left suspended
\* in publish() on a full queue that only the loop awaiting it could drain.
C26_PublishingHandlerCompletes ==
    /\ ImportHandlerActive ~> ~ImportHandlerActive
    /\ HandlerInPublish ~> ~HandlerInPublish

(***************************************************************************)
(* Serialized dispatch                                                     *)
(***************************************************************************)
\* The events one of whose handler tasks has been created and has not ended.
Unfinished ==
    {e \in 1..Len(calls) :
        \E k \in 1..Len(calls[e]) : calls[e][k].st \in {"pending", "running", "publishing"}}

\* The events one of whose handlers is running.
RunningEvents ==
    {e \in 1..Len(calls) : \E k \in 1..Len(calls[e]) : calls[e][k].st = "running"}

\* C30: dispatch is serialized per event: when a handler is invoked for an
\* event, every handler invocation of every other event has ended, so the
\* handlers of two different events never run at the same time.
C30_DispatchSerializedPerEvent ==
    /\ [](Cardinality(RunningEvents) <= 1 /\ Cardinality(Unfinished) <= 1)
    /\ [][Len(inv_log') > Len(inv_log) =>
              Unfinished \subseteq {inv_log'[Len(inv_log')][1]}]_vars

\* A handler is running for an event while the next event waits in the
\* queue, after the handlers of an earlier event were invoked and ended.
C30_Witness ==
    /\ RunningEvents # {}
    /\ queue # <<>>
    /\ \E i \in 1..Len(inv_log) :
          /\ inv_log[i][1] \notin RunningEvents
          /\ inv_log[i] \in finished

(***************************************************************************)
(* C31: after any sequence of registrations, the tracker entry of a symbol *)
(* is the latest announcement timestamp registered for that symbol,        *)
(* whatever the order in which the announcements were registered.          *)
(***************************************************************************)
RegisteredTimes(s) == {reg_log[i].time : i \in {j \in 1..Len(reg_log) : reg_log[j].symbol = s}}

C31_TrackerHoldsLatestTimestamp ==
    \A s \in Symbols :
        RegisteredTimes(s) # {} => announcement_tracker[s] = Max(RegisteredTimes(s))

(***************************************************************************)
(* C40: check_announcement_today(symbol) returns true exactly when the     *)
(* tracker holds an entry for the symbol whose timestamp lies within the   *)
(* lookback window before now, so false for a symbol never registered and  *)
(* for a stale entry; the check is a pure read that leaves every entry as  *)
(* it was, and no step ever removes a key from the tracker.                *)
(***************************************************************************)
TrackerKeys(tracker) == {s \in Symbols : tracker[s] # 0}

InWindow(t, lookback_hours) == now - lookback_hours <= t /\ t <= now

TakenForSubscribers(i) ==
    IF subscribers[published[i].type] = <<>>
    THEN i \in completed'
    ELSE /\ Len(calls'[i]) = Len(subscribers[published[i].type])
         /\ \A k \in 1..Len(calls'[i]) :
                calls'[i][k].h = subscribers[published[i].type][k]

IndicesOf(t) == {i \in 1..Len(svc_log) : svc_log[i].type = t}

C32_StartedFirstCompletedLast ==
    /\ Len(published) = Len(svc_log)
    /\ \A i \in 1..Len(svc_log) : published[i].type = svc_log[i].type
    /\ svc_pc # "idle" => svc_log # <<>>
    /\ svc_log # <<>> => IndicesOf("ScanStartedEvent") = {1}
    /\ IndicesOf("ScanCompletedEvent") \subseteq {Len(svc_log)}
    /\ svc_pc = "done" <=> IndicesOf("ScanCompletedEvent") # {}
    /\ \A i \in IndicesOf("AnnouncementFoundEvent") :
            /\ 1 < i
            /\ \A j \in IndicesOf("ScanCompletedEvent") : i < j

\* A run whose loop raised after one AnnouncementFound has ended: it
\* published ScanStarted, AnnouncementFound and a failed ScanCompleted.
C32_Witness ==
    /\ svc_pc = "done"
    /\ svc_todo # <<>>
    /\ Len(svc_log) = 3
    /\ svc_log[2].type = "AnnouncementFoundEvent"
    /\ svc_log[3].type = "ScanCompletedEvent"
    /\ ~svc_log[3].success
    /\ completed = {1, 2, 3}

(***************************************************************************)
(* C33: on every path of ScannerService.scan(), the ScanCompleted event    *)
(* reports a processed_count equal to the number of AnnouncementFound      *)
(* events published during that run.                                       *)
(***************************************************************************)
C33_ProcessedCountIsPublishedCount ==
    \A i \in IndicesOf("ScanCompletedEvent") :
        svc_log[i].processed_count = Cardinality(IndicesOf("AnnouncementFoundEvent"))

(***************************************************************************)
(* C34: get_candidates_for_date returns exactly one candidate for each bar *)
(* (at index >= 1 of its symbol's series) that falls on the requested      *)
(* date: no bar is represented by two candidates.                          *)
(***************************************************************************)
BarsOnDate(s, date) ==
    {i \in 2..Len(LoadBars(s).bars) : LoadBars(s).bars[i].dt = date}

CandidatesOfBar(s, date) ==
    {k \in 1..Len(date_result.value) :
        date_result.value[k].symbol = s /\ date_result.value[k].timestamp = date}

C34_OneCandidatePerBar ==
    (date_log # <<>> /\ ~date_result.raised) =>
        \A s \in Symbols :
            Cardinality(CandidatesOfBar(s, date_log[Len(date_log)].date))
                = Cardinality(BarsOnDate(s, date_log[Len(date_log)].date))

(***************************************************************************)
(* C35: after scan_candidates returns, the tracker maps every accepted     *)
(* symbol to its announcement time, and the scan has written no entry for  *)
(* a rejected or failing symbol: the entries of the symbols not accepted   *)
(* in this scan are unchanged.                                             *)
(***************************************************************************)
AcceptedTimes(result, s) ==
    {result.candidates[k].announcement_time :
        k \in {j \in 1..Len(result.candidates) : result.candidates[j].symbol = s}}

C35_TrackerWrittenOnAcceptanceOnly ==
    [][ann_result' # ann_result =>
        \A s \in Symbols :
            IF AcceptedTimes(ann_result', s) # {}
            THEN announcement_tracker'[s] \in AcceptedTimes(ann_result', s)
            ELSE announcement_tracker'[s] = announcement_tracker[s]]_vars

\* A scan of two symbols has returned: AAA was accepted and has its
\* announcement time, the evaluation of BBB raised and BBB still has the
\* entry of the day before.
C35_Witness ==
    /\ ann_result # NotCalled
    /\ Len(ann_args.announcement_symbols) = 2
    /\ AcceptedTimes(ann_result, "AAA") = {59}
    /\ announcement_tracker["AAA"] = 59
    /\ AcceptedTimes(ann_result, "BBB") = {}
    /\ \E k \in 1..2 : ann_args.announcement_symbols[k].symbol = "BBB"
    /\ db["BBB"].bars # <<>>
    /\ db["BBB"].bars[1].close = 0
    /\ announcement_tracker["BBB"] = 58

(***************************************************************************)
(* C36: for every bar sequence with positive closes and every threshold,   *)
(* detect_gaps_from_bars returns, in bar order, exactly one result per     *)
(* index i >= 1 at which abs((open[i] - close[i-1]) / close[i-1] * 100)    *)
(* >= threshold, with orh = max(high[i], open[i]) and                      *)
(* orl = min(low[i], open[i]); it returns the empty list when there are    *)
(* fewer than two bars.                                                    *)
(***************************************************************************)
GapAt(bars, i) == (bars[i].open - bars[i - 1].close) * 100

\* The indices (counted from 1) of the bars that open with a gap of at
\* least the threshold against a previous close that is not zero.
GapIndices(bars, threshold) ==
    {i \in 2..Len(bars) :
        /\ bars[i - 1].close # 0
        /\ Abs(GapAt(bars, i)) >= threshold * Abs(bars[i - 1].close)}

\* The k-th smallest member of a set of numbers.
Nth(I, k) == CHOOSE i \in I : Cardinality({j \in I : j < i}) = k - 1

\* result lists exactly the bars at the indices I, in bar order, each with
\* its opening range seed.
ListsGaps(result, bars, I) ==
    /\ ~result.raised
    /\ Len(result.value) = Cardinality(I)
    /\ \A k \in 1..Len(result.value) :
          LET bar == bars[Nth(I, k)]
          IN  /\ result.value[k].sample_time = bar.dt
              /\ result.value[k].price = bar.open
              /\ result.value[k].orh = Max({bar.high, bar.open})
              /\ result.value[k].orl = -Max({-bar.low, -bar.open})

AllClosesPositive(bars) == \A i \in 1..Len(bars) : bars[i].close > 0

C36_OneResultPerQualifyingPair ==
    (gap_result # NotCalled /\ AllClosesPositive(gap_args.bars)) =>
        /\ ListsGaps(gap_result, gap_args.bars,
                     GapIndices(gap_args.bars, gap_args.gap_threshold))
        /\ Len(gap_args.bars) < 2 => gap_result.value = <<>>

\* Three bars with positive closes: the second opens half below the first
\* close and above its own high, the third opens level. With a threshold
\* of 50 the call returned the second bar alone.
C36_Witness ==
    /\ gap_result # NotCalled
    /\ gap_args.gap_threshold = 50
    /\ Len(gap_args.bars) = 3
    /\ AllClosesPositive(gap_args.bars)
    /\ gap_args.bars[1].close = 2
    /\ gap_args.bars[2].open = 1
    /\ gap_args.bars[2].low = 1
    /\ gap_args.bars[2].close = 2
    /\ gap_args.bars[3].open = 2
    /\ gap_args.bars[3].high = 1
    /\ Len(gap_result.value) = 1
    /\ gap_result.value[1].sample_time = gap_args.bars[2].dt

(***************************************************************************)
(* C37: when the previous close of an adjacent bar pair is zero, gap       *)
(* detection skips that pair and still returns the qualifying pairs among  *)
(* the remaining bars; it does not fail with a division error.             *)
(***************************************************************************)
HasZeroPreviousClose(bars) == \E i \in 2..Len(bars) : bars[i - 1].close = 0

C37_ZeroPreviousCloseIsSkipped ==
    (gap_result # NotCalled /\ HasZeroPreviousClose(gap_args.bars)) =>
        ListsGaps(gap_result, gap_args.bars,
                  GapIndices(gap_args.bars, gap_args.gap_threshold))

(***************************************************************************)
(* C39: the price filter is idempotent: for unchanged bar data and the     *)
(* same min_price, filter_by_price applied to its own output returns that  *)
(* output unchanged, and its output is always a sub-list of its input in   *)
(* the same order.                                                         *)
(***************************************************************************)
RECURSIVE IsSubList(_, _)
IsSubList(a, b) ==
    IF a = <<>> THEN TRUE
    ELSE IF b = <<>> THEN FALSE
    ELSE IF Head(a) = Head(b) THEN IsSubList(Tail(a), Tail(b))
    ELSE IsSubList(a, Tail(b))

C39_PriceFilterIdempotent ==
    /\ \A k \in 2..Len(filter_log) : filter_log[k] = filter_log[k - 1]
    /\ filter_log # <<>> => IsSubList(filter_log[1], filter_args.symbols)

\* The filter dropped the symbol in the middle of three and kept the two
\* occurrences of the other, and was applied again to what it kept.
C39_Witness ==
    /\ Len(filter_log) = 2
    /\ Len(filter_args.symbols) = 3
    /\ filter_args.symbols[2] # filter_args.symbols[1]
    /\ filter_log[1] = <<filter_args.symbols[1], filter_args.symbols[3]>>
    /\ filter_log[2] = filter_log[1]

====
